---- MODULE Spec2Model ----
(***************************************************************************)
(* The invoice escrow ledger of smart-contracts/contracts/InvoiceEscrow.sol *)
(* as a state machine, one action per external function.                   *)
(*                                                                         *)
(* A call whose require fails reverts: it has no effect and is no step, so *)
(* the requires of a function are the guard of its action.                 *)
(*                                                                         *)
(* A call to a fungible token (safeTransferFrom / safeTransfer) is a call  *)
(* to arbitrary code.  The calling function is suspended in a frame on     *)
(* `stack`; while the frame is pending, functions of the ledger may be     *)
(* entered again from the token's code; the call then either returns       *)
(* (TransferReturn) or fails (TransferFail), and a failure reverts the     *)
(* suspended function to the state it was entered in.  Native transfers    *)
(* use `.transfer`, whose 2300 gas cannot re-enter: they are part of the   *)
(* step that makes them.                                                   *)
(***************************************************************************)
EXTENDS Integers, Sequences, FiniteSets, TLC

\* ------------------------------------------------------------ constants
PLATFORM_FEE_BPS == 50
MAX_PAYMENT_WINDOW == 7776000
MIN_PAYMENT_WINDOW == 86400
MAX_EARLY_DISCOUNT_BPS == 1000
BPS_DENOMINATOR == 10000

\* ------------------------------------------------------------ bounds
MaxInvoices == 2
MaxEntered == 1
MaxTicks == 3
StartTime == 100000
InitialFunds == 1500

\* ------------------------------------------------------------ identities
ZERO == "0x0"
OWNER == "owner"
LEDGER == "this"
USDC == "usdc"
Tokens == {ZERO, USDC}
Callers == {OWNER, "prov", "cli", "arb"}
\* the InvoiceFactory contract, and the accounts that call it
FACTORY == "factory"
Users == Callers \ {OWNER}
Accounts == Callers \cup {FACTORY}
Collectors == {"fc", "fc2"}
Holders == Accounts \cup Collectors \cup {LEDGER}
IdRange == 1..MaxInvoices
HalfWindow == MIN_PAYMENT_WINDOW \div 2

\* inputs of createInvoice: valid terms covering every pair of choices among asset,
\* discount and approval mode (one of them with a window of an odd number of seconds,
\* one naming the provider itself as arbitrator), and one input for each way the call
\* can be refused
Terms(_token, _discount, _requiresApproval) ==
  [sender |-> "prov", client |-> "cli", amount |-> 1000, token |-> _token,
   window |-> MIN_PAYMENT_WINDOW, discount |-> _discount, deadline |-> 7,
   requiresApproval |-> _requiresApproval, arbitrator |-> "arb", ipfsHash |-> "Qm"]
ValidCreate ==
  {[Terms(ZERO, 0, TRUE) EXCEPT !.arbitrator = "prov"],
   [Terms(ZERO, 500, FALSE) EXCEPT !.window = MIN_PAYMENT_WINDOW + 1],
   Terms(USDC, 0, FALSE), Terms(USDC, 500, TRUE)}
BaseCreate == Terms(USDC, 500, TRUE)
RefusedCreate ==
  {[BaseCreate EXCEPT !.client = ZERO],
   [BaseCreate EXCEPT !.sender = "cli"],
   [BaseCreate EXCEPT !.amount = 0],
   [BaseCreate EXCEPT !.window = MIN_PAYMENT_WINDOW - 1],
   [BaseCreate EXCEPT !.window = MAX_PAYMENT_WINDOW + 1],
   [BaseCreate EXCEPT !.discount = MAX_EARLY_DISCOUNT_BPS + 1],
   [BaseCreate EXCEPT !.ipfsHash = ""]}
CreateInputs == ValidCreate \cup RefusedCreate
\* inputs of InvoiceFactory.createInvoice: sender is the account calling the factory
FactoryInputs == {Terms(ZERO, 0, TRUE), Terms(USDC, 0, TRUE)}
\* inputs of the other calls
ValueInputs == {0, 950, 1000}
ReasonInputs == {"", "late"}
CollectorInputs == {ZERO} \cup Collectors
WithdrawInputs == {950}
AdminCallers == {OWNER, "cli"}
ListedTokens == {USDC}

InvoiceStatus == {"Created", "Paid", "Approved", "Completed", "Disputed", "Cancelled", "Refunded"}

VARIABLES
  invoices,          \* mapping(uint256 => Invoice)
  escrowBalances,    \* mapping(uint256 => uint256)
  disputeReasons,    \* mapping(uint256 => string)
  providerInvoices,  \* mapping(address => uint256[])
  clientInvoices,    \* mapping(address => uint256[])
  nextInvoiceId,
  feeCollector,
  supportedTokens,   \* mapping(address => bool)
  paused,            \* Pausable
  locked,            \* ReentrancyGuard: a nonReentrant function is executing
  balances,          \* balances[token][holder]: what each account holds of each asset
  paidIn,            \* paidIn[id]: total taken from the client for the invoice
  paidOut,           \* paidOut[id]: total sent out for the invoice, by recipient role
  events,            \* events[id]: the events logged with the id by the latest call for it
  now,               \* block.timestamp
  stack,             \* suspended calls, innermost last
  entered,           \* calls entered from token code in the current transaction
  userInvoices,          \* InvoiceFactory: mapping(address => uint256[])
  invoiceToContract,     \* InvoiceFactory: mapping(uint256 => address)
  totalInvoicesCreated,  \* InvoiceFactory
  createdViaFactory      \* InvoiceFactory: the InvoiceCreatedViaFactory logged with the id

storageVars == <<invoices, escrowBalances, disputeReasons, providerInvoices, clientInvoices,
                 nextInvoiceId, feeCollector, supportedTokens, paused, locked, balances,
                 paidIn, paidOut, events>>
vars == <<invoices, escrowBalances, disputeReasons, providerInvoices, clientInvoices,
          nextInvoiceId, feeCollector, supportedTokens, paused, locked, balances,
          paidIn, paidOut, events, now, stack, entered,
          userInvoices, invoiceToContract, totalInvoicesCreated, createdViaFactory>>
factoryVars == <<userInvoices, invoiceToContract, totalInvoicesCreated, createdViaFactory>>

\* ------------------------------------------------------------ records
NoTerms == [paymentWindow |-> 0, earlyPaymentDiscountBps |-> 0, earlyPaymentDeadline |-> 0,
            requiresApproval |-> FALSE, arbitrator |-> ZERO]

NoInvoice == [id |-> 0, provider |-> ZERO, client |-> ZERO, amount |-> 0, token |-> ZERO,
              terms |-> NoTerms, status |-> "Created", createdAt |-> 0, dueDate |-> 0,
              paidAt |-> 0, ipfsHash |-> ""]

NoPayout == [provider |-> 0, fee |-> 0, client |-> 0]

\* The whole storage, as one record: what a revert restores.
Storage == [invoices |-> invoices, escrowBalances |-> escrowBalances,
            disputeReasons |-> disputeReasons, providerInvoices |-> providerInvoices,
            clientInvoices |-> clientInvoices, nextInvoiceId |-> nextInvoiceId,
            feeCollector |-> feeCollector, supportedTokens |-> supportedTokens,
            paused |-> paused, locked |-> locked, balances |-> balances,
            paidIn |-> paidIn, paidOut |-> paidOut, events |-> events]

Commit(S) ==
  /\ invoices' = S.invoices
  /\ escrowBalances' = S.escrowBalances
  /\ disputeReasons' = S.disputeReasons
  /\ providerInvoices' = S.providerInvoices
  /\ clientInvoices' = S.clientInvoices
  /\ nextInvoiceId' = S.nextInvoiceId
  /\ feeCollector' = S.feeCollector
  /\ supportedTokens' = S.supportedTokens
  /\ paused' = S.paused
  /\ locked' = S.locked
  /\ balances' = S.balances
  /\ paidIn' = S.paidIn
  /\ paidOut' = S.paidOut
  /\ events' = S.events


\* ------------------------------------------------------------ helpers
Top == stack[Len(stack)]
Pop == SubSeq(stack, 1, Len(stack) - 1)
\* A call is made from outside (empty stack) or from the code of a pending token call.
CanCall == stack = <<>> \/ entered < MaxEntered
\* The administrator's functions are called from outside only: the owner is no token.
CanCallAdmin == stack = <<>>
\* A call made from token code counts; the count ends with the transaction.
CountCall == entered' = IF stack = <<>> \/ stack' = <<>> THEN 0 ELSE entered + 1
CountReturn == entered' = IF stack' = <<>> THEN 0 ELSE entered

\* token.transfer / transferFrom / native transfer of amt from one holder to another
Move(bal, token, from, to, amt) ==
  [bal EXCEPT ![token] = [h \in Holders |->
      IF h = from /\ h = to THEN bal[token][h]
      ELSE IF h = from THEN bal[token][h] - amt
      ELSE IF h = to THEN bal[token][h] + amt
      ELSE bal[token][h]]]

\* require(_feeCollector != address(0), "Invalid fee collector") of the constructor
constructorOk(_feeCollector) == _feeCollector # ZERO

\* the state after a construction that did not revert
Init ==
  /\ invoices = [i \in IdRange |-> NoInvoice]
  /\ escrowBalances = [i \in IdRange |-> 0]
  /\ disputeReasons = [i \in IdRange |-> ""]
  /\ providerInvoices = [a \in Accounts |-> <<>>]
  /\ clientInvoices = [a \in Accounts |-> <<>>]
  /\ nextInvoiceId = 1
  /\ feeCollector \in {_feeCollector \in CollectorInputs : constructorOk(_feeCollector)}
  /\ supportedTokens = [t \in Tokens |-> TRUE]
  /\ paused = FALSE
  /\ locked = FALSE
  /\ balances = [t \in Tokens |-> [h \in Holders |-> IF h = "cli" THEN InitialFunds ELSE 0]]
  /\ paidIn = [i \in IdRange |-> 0]
  /\ paidOut = [i \in IdRange |-> NoPayout]
  /\ events = [i \in IdRange |-> {}]
  /\ now = StartTime
  /\ stack = <<>>
  /\ entered = 0
  /\ userInvoices = [a \in Accounts |-> <<>>]
  /\ invoiceToContract = [i \in IdRange |-> ZERO]
  /\ totalInvoicesCreated = 0
  /\ createdViaFactory = [i \in IdRange |-> [provider |-> ZERO, client |-> ZERO]]

\* ------------------------------------------------------------ pure functions
\* (variant: the fee rounded up instead of down)
PlatformFee_roundUp(escrowAmount) ==
  (escrowAmount * PLATFORM_FEE_BPS + BPS_DENOMINATOR - 1) \div BPS_DENOMINATOR

\* uint256 platformFee = (escrowAmount * PLATFORM_FEE_BPS) / 10000;
PlatformFee(escrowAmount) == (escrowAmount * PLATFORM_FEE_BPS) \div BPS_DENOMINATOR

\* uint256 discount = (invoice.amount * invoice.terms.earlyPaymentDiscountBps) / 10000;
EarlyDiscount(invoice) ==
  (invoice.amount * invoice.terms.earlyPaymentDiscountBps) \div BPS_DENOMINATOR

\* (variant: the deadline itself excluded)
IsEarlyPayment_strict(invoice, t) ==
  invoice.terms.earlyPaymentDiscountBps > 0 /\ t < invoice.terms.earlyPaymentDeadline

\* earlyPaymentDiscountBps > 0 && block.timestamp <= earlyPaymentDeadline
IsEarlyPayment(invoice, t) ==
  invoice.terms.earlyPaymentDiscountBps > 0 /\ t <= invoice.terms.earlyPaymentDeadline

PaymentAmount(invoice, t) ==
  IF IsEarlyPayment(invoice, t) THEN invoice.amount - EarlyDiscount(invoice)
  ELSE invoice.amount

\* (variant: the expiry check left out)
NotExpired_off(invoice, t) == TRUE

\* require(block.timestamp <= invoice.dueDate, "Invoice has expired")
NotExpired(invoice, t) == t <= invoice.dueDate

\* (variant: the two branches of the conditional exchanged)
PaidStatus_swapped(invoice) == IF invoice.terms.requiresApproval THEN "Approved" ELSE "Paid"

\* invoice.terms.requiresApproval ? InvoiceStatus.Paid : InvoiceStatus.Approved
PaidStatus(invoice) == IF invoice.terms.requiresApproval THEN "Paid" ELSE "Approved"

\* (variant: a deadline also when no discount is offered)
EarlyDeadline_always(t, _window, _discount) == t + (_window \div 2)

\* earlyDeadline of createInvoice
EarlyDeadline(t, _window, _discount) == IF _discount > 0 THEN t + (_window \div 2) ELSE 0

\* ------------------------------------------------------------ storage updates
SetStatus(S, id, s) == [S EXCEPT !.invoices[id].status = s]

CanPay(S, token, amt) == S.balances[token][LEDGER] >= amt

\* the ledger sends amt of the invoice's asset to `to`
Pay(S, id, to, amt, role) ==
  [S EXCEPT !.balances = Move(@, S.invoices[id].token, LEDGER, to, amt),
            !.paidOut[id][role] = @ + amt]

\* the ledger receives amt of the invoice's asset from `from`
Receive(S, id, from, amt) ==
  [S EXCEPT !.balances = Move(@, S.invoices[id].token, from, LEDGER, amt),
            !.paidIn[id] = @ + amt]

\* A call for an invoice starts with nothing logged; what earlier calls logged stays
\* in the log and is not kept here.
NewLog(S, id) == [S EXCEPT !.events[id] = {}]

\* emit <name>(id, ...): the log is part of what a revert undoes
Emit(S, id, name) == [S EXCEPT !.events[id] = @ \cup {name}]

\* the end of a settlement in favour of the provider: emit FundsReleased, and for
\* resolveDispute emit DisputeResolved after it
EmitSettled(S, id, op) ==
  IF op = "resolveDispute"
  THEN Emit(Emit(S, id, "FundsReleased"), id, "DisputeResolved")
  ELSE Emit(S, id, "FundsReleased")

\* (variant: the amount of the record overwritten with what was paid)
RecordPayment_writesAmount(S, id, paymentAmount, t) ==
  [S EXCEPT !.escrowBalances[id] = paymentAmount,
            !.invoices[id].status = PaidStatus(S.invoices[id]),
            !.invoices[id].paidAt = t,
            !.invoices[id].amount = paymentAmount]

\* (variant: the status and the time written, the escrow balance not)
RecordPayment_noEscrow(S, id, paymentAmount, t) ==
  [S EXCEPT !.invoices[id].status = PaidStatus(S.invoices[id]),
            !.invoices[id].paidAt = t]

\* (variant: the escrow balance and the status written, the time of payment not)
RecordPayment_noPaidAt(S, id, paymentAmount, t) ==
  [S EXCEPT !.escrowBalances[id] = paymentAmount,
            !.invoices[id].status = PaidStatus(S.invoices[id])]

\* makePayment, lines 248-250
RecordPayment(S, id, paymentAmount, t) ==
  [S EXCEPT !.escrowBalances[id] = paymentAmount,
            !.invoices[id].status = PaidStatus(S.invoices[id]),
            !.invoices[id].paidAt = t]

\* (variant: the state update left until after the transfers)
releaseFunds_late(S, id) ==
  LET escrowAmount == S.escrowBalances[id]
      platformFee == PlatformFee(escrowAmount)
  IN [ok |-> S.invoices[id].status = "Approved" /\ escrowAmount > 0,
      S |-> S,
      escrowAmount |-> escrowAmount,
      platformFee |-> platformFee,
      providerAmount |-> escrowAmount - platformFee]

\* (variant: the status finalized but the escrow balance not zeroed)
releaseFunds_keepEscrow(S, id) ==
  LET escrowAmount == S.escrowBalances[id]
      platformFee == PlatformFee(escrowAmount)
  IN [ok |-> S.invoices[id].status = "Approved" /\ escrowAmount > 0,
      S |-> [S EXCEPT !.invoices[id].status = "Completed"],
      escrowAmount |-> escrowAmount,
      platformFee |-> platformFee,
      providerAmount |-> escrowAmount - platformFee]

\* _releaseFunds up to its transfers: the checks, the split, the state update
releaseFunds(S, id) ==
  LET escrowAmount == S.escrowBalances[id]
      platformFee == PlatformFee(escrowAmount)
  IN [ok |-> S.invoices[id].status = "Approved" /\ escrowAmount > 0,
      S |-> [S EXCEPT !.escrowBalances[id] = 0, !.invoices[id].status = "Completed"],
      escrowAmount |-> escrowAmount,
      platformFee |-> platformFee,
      providerAmount |-> escrowAmount - platformFee]

\* (variant: the dispute reason cleared on resolution)
resolveEffects_clearsReason(S, id, _favorProvider) ==
  LET escrowAmount == S.escrowBalances[id]
      platformFee == PlatformFee(escrowAmount)
  IN [ok |-> escrowAmount > 0,
      S |-> [S EXCEPT !.escrowBalances[id] = 0,
                      !.disputeReasons[id] = "",
                      !.invoices[id].status =
                          IF _favorProvider THEN "Completed" ELSE "Refunded"],
      escrowAmount |-> escrowAmount,
      platformFee |-> platformFee,
      providerAmount |-> escrowAmount - platformFee]

\* resolveDispute up to its transfers
resolveEffects(S, id, _favorProvider) ==
  LET escrowAmount == S.escrowBalances[id]
      platformFee == PlatformFee(escrowAmount)
  IN [ok |-> escrowAmount > 0,
      S |-> [S EXCEPT !.escrowBalances[id] = 0,
                      !.invoices[id].status =
                          IF _favorProvider THEN "Completed" ELSE "Refunded"],
      escrowAmount |-> escrowAmount,
      platformFee |-> platformFee,
      providerAmount |-> escrowAmount - platformFee]

Frame(op, pc, id, from, to, amt, fee, snap) ==
  [op |-> op, pc |-> pc, id |-> id, from |-> from, to |-> to, amt |-> amt, fee |-> fee,
   snap |-> snap]

\* A revert of the call whose entry state was snap and whose callers are stk.
RevertTo(snap, stk) == Commit(snap) /\ stack' = stk /\ UNCHANGED now

\* The nonReentrant modifier's exit.
Unlock(S, op) == IF op = "makePayment" THEN [S EXCEPT !.locked = FALSE] ELSE S

\* InvoiceFactory has no receive or fallback function: a native transfer to it reverts.
AcceptsNative(to) == to # FACTORY

\* (variant: the fee of a native settlement sent to the owner)
SettleTransfers_feeToOwner(r, id, op, snap, stk) ==
  LET invoice == r.S.invoices[id] IN
  IF invoice.token = ZERO
  THEN \/ /\ CanPay(r.S, ZERO, r.providerAmount + r.platformFee)
          /\ AcceptsNative(invoice.provider)
          /\ Commit(Unlock(EmitSettled(
                 Pay(Pay(r.S, id, invoice.provider, r.providerAmount, "provider"),
                     id, OWNER, r.platformFee, "fee"), id, op), op))
          /\ stack' = stk
          /\ UNCHANGED now
       \/ RevertTo(snap, stk)
  ELSE /\ Commit(r.S)
       /\ stack' = Append(stk, Frame(op, "transferProvider", id, LEDGER, invoice.provider,
                                     r.providerAmount, r.platformFee, snap))
       /\ UNCHANGED now

\* The two transfers of a settlement in favour of the provider, for function op
\* entered in state snap under the callers stk, after the state update r.S.
\* Native: both transfers happen here, and a recipient that rejects reverts the call.
\* Token: the first safeTransfer is called and the function is suspended.
SettleTransfers(r, id, op, snap, stk) ==
  LET invoice == r.S.invoices[id] IN
  IF invoice.token = ZERO
  THEN \/ /\ CanPay(r.S, ZERO, r.providerAmount + r.platformFee)
          /\ AcceptsNative(invoice.provider)
          /\ Commit(Unlock(EmitSettled(
                 Pay(Pay(r.S, id, invoice.provider, r.providerAmount, "provider"),
                     id, r.S.feeCollector, r.platformFee, "fee"), id, op), op))
          /\ stack' = stk
          /\ UNCHANGED now
       \/ RevertTo(snap, stk)
  ELSE /\ Commit(r.S)
       /\ stack' = Append(stk, Frame(op, "transferProvider", id, LEDGER, invoice.provider,
                                     r.providerAmount, r.platformFee, snap))
       /\ UNCHANGED now

\* _releaseFunds(id) called in state S
releaseFundsCall(S, id, op, snap, stk) ==
  LET r == releaseFunds(S, id) IN
  IF r.ok THEN SettleTransfers(r, id, op, snap, stk) ELSE RevertTo(snap, stk)

\* ------------------------------------------------------------ createInvoice
\* (variant: the caller may name itself as client)
createInvoiceOk_selfClient(sender, _client, _amount, _token, _window, _discount, _ipfsHash) ==
  /\ ~paused
  /\ ~locked
  /\ _client # ZERO
  /\ _amount > 0
  /\ supportedTokens[_token]
  /\ _window >= MIN_PAYMENT_WINDOW /\ _window <= MAX_PAYMENT_WINDOW
  /\ _discount <= MAX_EARLY_DISCOUNT_BPS
  /\ _ipfsHash # ""

\* (variant: an empty client accepted)
createInvoiceOk_noClient(sender, _client, _amount, _token, _window, _discount, _ipfsHash) ==
  /\ ~paused
  /\ ~locked
  /\ _client # sender
  /\ _amount > 0
  /\ supportedTokens[_token]
  /\ _window >= MIN_PAYMENT_WINDOW /\ _window <= MAX_PAYMENT_WINDOW
  /\ _discount <= MAX_EARLY_DISCOUNT_BPS
  /\ _ipfsHash # ""

createInvoiceOk(sender, _client, _amount, _token, _window, _discount, _ipfsHash) ==
  /\ ~paused
  /\ ~locked
  /\ _client # ZERO
  /\ _client # sender
  /\ _amount > 0
  /\ supportedTokens[_token]
  /\ _window >= MIN_PAYMENT_WINDOW /\ _window <= MAX_PAYMENT_WINDOW
  /\ _discount <= MAX_EARLY_DISCOUNT_BPS
  /\ _ipfsHash # ""

NewInvoice(invoiceId, sender, _client, _amount, _token, _window, _discount, _requiresApproval, _arbitrator, _ipfsHash, t) ==
  [id |-> invoiceId, provider |-> sender, client |-> _client, amount |-> _amount,
   token |-> _token,
   terms |-> [paymentWindow |-> _window, earlyPaymentDiscountBps |-> _discount,
              earlyPaymentDeadline |-> EarlyDeadline(t, _window, _discount),
              requiresApproval |-> _requiresApproval, arbitrator |-> _arbitrator],
   status |-> "Created", createdAt |-> t, dueDate |-> t + _window, paidAt |-> 0,
   ipfsHash |-> _ipfsHash]

\* (variant: the counter not advanced)
createInvoice_sameId(sender, _client, _amount, _token, _window, _discount, _deadline, _requiresApproval, _arbitrator, _ipfsHash) ==
  /\ CanCall
  /\ nextInvoiceId <= MaxInvoices
  /\ createInvoiceOk(sender, _client, _amount, _token, _window, _discount, _ipfsHash)
  /\ Commit([Storage EXCEPT
         !.invoices[nextInvoiceId] =
             NewInvoice(nextInvoiceId, sender, _client, _amount, _token, _window,
                        _discount, _requiresApproval, _arbitrator, _ipfsHash, now),
         !.providerInvoices[sender] = Append(@, nextInvoiceId),
         !.clientInvoices[_client] = Append(@, nextInvoiceId),
         !.events[nextInvoiceId] = {"InvoiceCreated"}])
  /\ UNCHANGED <<now, stack>>
  /\ CountCall

\* (variant: the id appended to the provider index of the client)
createInvoice_wrongIndex(sender, _client, _amount, _token, _window, _discount, _deadline, _requiresApproval, _arbitrator, _ipfsHash) ==
  /\ CanCall
  /\ nextInvoiceId <= MaxInvoices
  /\ createInvoiceOk(sender, _client, _amount, _token, _window, _discount, _ipfsHash)
  /\ Commit([Storage EXCEPT
         !.nextInvoiceId = @ + 1,
         !.invoices[nextInvoiceId] =
             NewInvoice(nextInvoiceId, sender, _client, _amount, _token, _window,
                        _discount, _requiresApproval, _arbitrator, _ipfsHash, now),
         !.providerInvoices[_client] = Append(@, nextInvoiceId),
         !.clientInvoices[_client] = Append(@, nextInvoiceId),
         !.events[nextInvoiceId] = {"InvoiceCreated"}])
  /\ UNCHANGED <<now, stack>>
  /\ CountCall

createInvoice(sender, _client, _amount, _token, _window, _discount, _deadline, _requiresApproval, _arbitrator, _ipfsHash) ==
  /\ CanCall
  /\ nextInvoiceId <= MaxInvoices
  /\ createInvoiceOk(sender, _client, _amount, _token, _window, _discount, _ipfsHash)
  /\ Commit([Storage EXCEPT
         !.nextInvoiceId = @ + 1,
         !.invoices[nextInvoiceId] =
             NewInvoice(nextInvoiceId, sender, _client, _amount, _token, _window,
                        _discount, _requiresApproval, _arbitrator, _ipfsHash, now),
         !.providerInvoices[sender] = Append(@, nextInvoiceId),
         !.clientInvoices[_client] = Append(@, nextInvoiceId),
         !.events[nextInvoiceId] = {"InvoiceCreated"}])
  /\ UNCHANGED <<now, stack>>
  /\ CountCall

\* ------------------------------------------------------------ makePayment
\* (variant: payment in any status)
makePaymentOk_anyStatus(_invoiceId, sender) ==
  /\ ~paused
  /\ ~locked
  /\ invoices[_invoiceId].id # 0
  /\ invoices[_invoiceId].client = sender
  /\ NotExpired(invoices[_invoiceId], now)

\* (variant: payment only while the invoice's token is on the allow-list)
makePaymentOk_supportedOnly(_invoiceId, sender) ==
  /\ ~paused
  /\ ~locked
  /\ invoices[_invoiceId].id # 0
  /\ invoices[_invoiceId].client = sender
  /\ invoices[_invoiceId].status = "Created"
  /\ NotExpired(invoices[_invoiceId], now)
  /\ supportedTokens[invoices[_invoiceId].token]

makePaymentOk(_invoiceId, sender) ==
  /\ ~paused
  /\ ~locked
  /\ invoices[_invoiceId].id # 0
  /\ invoices[_invoiceId].client = sender
  /\ invoices[_invoiceId].status = "Created"
  /\ NotExpired(invoices[_invoiceId], now)

\* (variant: a native payment of at least the amount, and value accepted with a token)
ValueOk_atLeast(invoice, value, paymentAmount) ==
  IF invoice.token = ZERO THEN value >= paymentAmount ELSE TRUE

\* require(msg.value == paymentAmount, ...) / require(msg.value == 0, ...)
ValueOk(invoice, value, paymentAmount) ==
  IF invoice.token = ZERO THEN value = paymentAmount ELSE value = 0

\* The function is payable: msg.value comes with the call and goes back if it reverts.
makePayment(_invoiceId, sender, value) ==
  /\ CanCall
  /\ balances[ZERO][sender] >= value
  /\ makePaymentOk(_invoiceId, sender)
  /\ LET invoice == invoices[_invoiceId]
         paymentAmount == PaymentAmount(invoice, now)
     IN IF invoice.token = ZERO
        THEN /\ ValueOk(invoice, value, paymentAmount)
             /\ LET S1 == Emit(RecordPayment(Receive(NewLog(Storage, _invoiceId), _invoiceId, sender, value),
                                             _invoiceId, paymentAmount, now),
                                _invoiceId, "PaymentMade")
                IN IF invoice.terms.requiresApproval
                   THEN Commit(S1) /\ UNCHANGED <<now, stack>>
                   ELSE releaseFundsCall(S1, _invoiceId, "makePayment", Storage, stack)
        ELSE /\ ValueOk(invoice, value, paymentAmount)
             /\ Commit([NewLog(Storage, _invoiceId) EXCEPT
                            !.locked = TRUE,
                            !.balances = Move(@, ZERO, sender, LEDGER, value)])
             /\ stack' = Append(stack, Frame("makePayment", "transferFrom", _invoiceId,
                                             sender, LEDGER, paymentAmount, 0, Storage))
             /\ UNCHANGED now
  /\ CountCall

\* ------------------------------------------------------------ approveInvoice
\* (variant: any caller may approve)
approveInvoiceOk_anyCaller(_invoiceId, sender) ==
  /\ ~paused
  /\ invoices[_invoiceId].id # 0
  /\ invoices[_invoiceId].status = "Paid"
  /\ invoices[_invoiceId].terms.requiresApproval

approveInvoiceOk(_invoiceId, sender) ==
  /\ ~paused
  /\ invoices[_invoiceId].id # 0
  /\ invoices[_invoiceId].client = sender
  /\ invoices[_invoiceId].status = "Paid"
  /\ invoices[_invoiceId].terms.requiresApproval

approveInvoice(_invoiceId, sender) ==
  /\ CanCall
  /\ approveInvoiceOk(_invoiceId, sender)
  /\ releaseFundsCall(Emit(SetStatus(NewLog(Storage, _invoiceId), _invoiceId, "Approved"), _invoiceId,
                             "InvoiceApproved"),
                        _invoiceId, "approveInvoice", Storage, stack)
  /\ CountCall

\* ------------------------------------------------------------ raiseDispute
raiseDisputeOk(_invoiceId, sender, _reason) ==
  /\ ~paused
  /\ invoices[_invoiceId].id # 0
  /\ invoices[_invoiceId].provider = sender \/ invoices[_invoiceId].client = sender
  /\ invoices[_invoiceId].status \in {"Paid", "Approved"}
  /\ _reason # ""

\* (variant: the reason written for every invoice)
raiseDispute_sharedReason(_invoiceId, sender, _reason) ==
  /\ CanCall
  /\ raiseDisputeOk(_invoiceId, sender, _reason)
  /\ Commit(Emit([NewLog(Storage, _invoiceId) EXCEPT
                      !.invoices[_invoiceId].status = "Disputed",
                      !.disputeReasons = [j \in IdRange |-> _reason]],
                 _invoiceId, "DisputeRaised"))
  /\ UNCHANGED <<now, stack>>
  /\ CountCall

raiseDispute(_invoiceId, sender, _reason) ==
  /\ CanCall
  /\ raiseDisputeOk(_invoiceId, sender, _reason)
  /\ Commit(Emit([NewLog(Storage, _invoiceId) EXCEPT
                      !.invoices[_invoiceId].status = "Disputed",
                      !.disputeReasons[_invoiceId] = _reason],
                 _invoiceId, "DisputeRaised"))
  /\ UNCHANGED <<now, stack>>
  /\ CountCall

\* ------------------------------------------------------------ resolveDispute
\* (variant: any caller may resolve)
resolveDisputeOk_anyCaller(_invoiceId, sender) ==
  /\ ~paused
  /\ invoices[_invoiceId].id # 0
  /\ invoices[_invoiceId].status = "Disputed"

\* (variant: resolution also while paused)
resolveDisputeOk_whilePaused(_invoiceId, sender) ==
  /\ invoices[_invoiceId].id # 0
  /\ invoices[_invoiceId].status = "Disputed"
  /\ sender = invoices[_invoiceId].terms.arbitrator \/ sender = OWNER

resolveDisputeOk(_invoiceId, sender) ==
  /\ ~paused
  /\ invoices[_invoiceId].id # 0
  /\ invoices[_invoiceId].status = "Disputed"
  /\ sender = invoices[_invoiceId].terms.arbitrator \/ sender = OWNER

\* The refund of resolveDispute(false), after the state update r.S.
RefundTransfer(r, id, snap, stk) ==
  LET invoice == r.S.invoices[id] IN
  IF invoice.token = ZERO
  THEN \/ /\ CanPay(r.S, ZERO, r.escrowAmount)
          /\ Commit(Emit(Pay(r.S, id, invoice.client, r.escrowAmount, "client"),
                         id, "DisputeResolved"))
          /\ stack' = stk
          /\ UNCHANGED now
       \/ RevertTo(snap, stk)
  ELSE /\ Commit(r.S)
       /\ stack' = Append(stk, Frame("resolveDispute", "transferClient", id, LEDGER,
                                     invoice.client, r.escrowAmount, 0, snap))
       /\ UNCHANGED now

resolveDispute(_invoiceId, sender, _favorProvider) ==
  /\ CanCall
  /\ resolveDisputeOk(_invoiceId, sender)
  /\ LET r == resolveEffects(NewLog(Storage, _invoiceId), _invoiceId, _favorProvider) IN
     /\ r.ok
     /\ IF _favorProvider
        THEN SettleTransfers(r, _invoiceId, "resolveDispute", Storage, stack)
        ELSE RefundTransfer(r, _invoiceId, Storage, stack)
  /\ CountCall

\* ------------------------------------------------------------ cancelInvoice
\* (variant: cancellation in any status)
cancelInvoiceOk_anyStatus(_invoiceId, sender) ==
  /\ ~paused
  /\ invoices[_invoiceId].id # 0
  /\ invoices[_invoiceId].provider = sender

\* (variant: cancellation only up to the due date)
cancelInvoiceOk_beforeDue(_invoiceId, sender) ==
  /\ ~paused
  /\ invoices[_invoiceId].id # 0
  /\ invoices[_invoiceId].provider = sender
  /\ invoices[_invoiceId].status = "Created"
  /\ now <= invoices[_invoiceId].dueDate

cancelInvoiceOk(_invoiceId, sender) ==
  /\ ~paused
  /\ invoices[_invoiceId].id # 0
  /\ invoices[_invoiceId].provider = sender
  /\ invoices[_invoiceId].status = "Created"

cancelInvoice(_invoiceId, sender) ==
  /\ CanCall
  /\ cancelInvoiceOk(_invoiceId, sender)
  /\ Commit(Emit(SetStatus(NewLog(Storage, _invoiceId), _invoiceId, "Cancelled"), _invoiceId,
                 "InvoiceCancelled"))
  /\ UNCHANGED <<now, stack>>
  /\ CountCall

\* ------------------------------------------------------------ administration
addSupportedToken(sender, _token) ==
  /\ CanCallAdmin
  /\ sender = OWNER
  /\ Commit([Storage EXCEPT !.supportedTokens[_token] = TRUE]) /\ UNCHANGED <<now, stack>>
  /\ CountCall

removeSupportedToken(sender, _token) ==
  /\ CanCallAdmin
  /\ sender = OWNER
  /\ Commit([Storage EXCEPT !.supportedTokens[_token] = FALSE]) /\ UNCHANGED <<now, stack>>
  /\ CountCall

\* (variant: any identity accepted, the empty one included)
setFeeCollector_anyAddress(sender, _feeCollector) ==
  /\ CanCallAdmin
  /\ sender = OWNER
  /\ Commit([Storage EXCEPT !.feeCollector = _feeCollector]) /\ UNCHANGED <<now, stack>>
  /\ CountCall

setFeeCollector(sender, _feeCollector) ==
  /\ CanCallAdmin
  /\ sender = OWNER /\ _feeCollector # ZERO
  /\ Commit([Storage EXCEPT !.feeCollector = _feeCollector]) /\ UNCHANGED <<now, stack>>
  /\ CountCall

pause(sender) ==
  /\ CanCallAdmin
  /\ sender = OWNER /\ ~paused
  /\ Commit([Storage EXCEPT !.paused = TRUE]) /\ UNCHANGED <<now, stack>>
  /\ CountCall

\* (variant: unpausing clears the escrow balances)
unpause_dropsEscrow(sender) ==
  /\ CanCallAdmin
  /\ sender = OWNER /\ paused
  /\ Commit([Storage EXCEPT !.paused = FALSE,
                            !.escrowBalances = [i \in IdRange |-> 0]])
  /\ UNCHANGED <<now, stack>>
  /\ CountCall

unpause(sender) ==
  /\ CanCallAdmin
  /\ sender = OWNER /\ paused
  /\ Commit([Storage EXCEPT !.paused = FALSE]) /\ UNCHANGED <<now, stack>>
  /\ CountCall

\* The owner takes _amount of _token out of the ledger's holdings.
emergencyWithdraw(sender, _token, _amount) ==
  /\ CanCallAdmin
  /\ sender = OWNER
  /\ balances[_token][LEDGER] >= _amount
  /\ Commit([Storage EXCEPT !.balances = Move(@, _token, LEDGER, OWNER, _amount)])
  /\ UNCHANGED <<now, stack>>
  /\ CountCall

\* ------------------------------------------------------------ token calls
\* The pending token call returns: the tokens have moved, the caller goes on.
TransferReturn ==
  /\ stack # <<>>
  /\ LET f == Top
         token == invoices[f.id].token
     IN /\ balances[token][f.from] >= f.amt
        /\ CASE f.pc = "transferFrom" ->
                  LET S1 == Emit(RecordPayment(Receive(Storage, f.id, f.from, f.amt),
                                               f.id, f.amt, now), f.id, "PaymentMade")
                  IN IF S1.invoices[f.id].terms.requiresApproval
                     THEN Commit(Unlock(S1, f.op)) /\ stack' = Pop /\ UNCHANGED now
                     ELSE releaseFundsCall(S1, f.id, f.op, f.snap, Pop)
             [] f.pc = "transferProvider" ->
                  /\ Commit(Pay(Storage, f.id, f.to, f.amt, "provider"))
                  /\ stack' = Append(Pop, Frame(f.op, "transferFee", f.id, LEDGER,
                                                feeCollector, f.fee, 0, f.snap))
                  /\ UNCHANGED now
             [] f.pc = "transferFee" ->
                  /\ Commit(Unlock(EmitSettled(Pay(Storage, f.id, f.to, f.amt, "fee"),
                                               f.id, f.op), f.op))
                  /\ stack' = Pop
                  /\ UNCHANGED now
             [] f.pc = "transferClient" ->
                  /\ Commit(Emit(Pay(Storage, f.id, f.to, f.amt, "client"),
                                 f.id, "DisputeResolved"))
                  /\ stack' = Pop
                  /\ UNCHANGED now
  /\ CountReturn

\* (variant: the failure is swallowed, the call ends with what it has written)
TransferFail_keepState ==
  /\ stack # <<>>
  /\ Commit(Unlock(Storage, Top.op))
  /\ stack' = Pop
  /\ UNCHANGED now
  /\ CountReturn

\* The pending token call fails: the suspended call reverts to its entry state.
TransferFail ==
  /\ stack # <<>>
  /\ RevertTo(Top.snap, Pop)
  /\ CountReturn

\* ------------------------------------------------------------ time
\* The clock is read only against the timestamps of existing invoices.
Tick ==
  /\ stack = <<>>
  /\ nextInvoiceId > 1
  /\ now < StartTime + MaxTicks * HalfWindow
  /\ now' = now + HalfWindow
  /\ UNCHANGED <<storageVars, stack, entered>>

\* ------------------------------------------------------------ specification
\* The ledger's functions called directly: the factory's storage is another contract's.
Next ==
  \/ \E c \in CreateInputs :
       /\ createInvoice(c.sender, c.client, c.amount, c.token, c.window, c.discount,
                        c.deadline, c.requiresApproval, c.arbitrator, c.ipfsHash)
       /\ UNCHANGED factoryVars
  \/ \E id \in IdRange, sender \in Callers, value \in ValueInputs :
       makePayment(id, sender, value) /\ UNCHANGED factoryVars
  \/ \E id \in IdRange, sender \in Callers :
       approveInvoice(id, sender) /\ UNCHANGED factoryVars
  \/ \E id \in IdRange, sender \in Callers, _reason \in ReasonInputs :
       raiseDispute(id, sender, _reason) /\ UNCHANGED factoryVars
  \/ \E id \in IdRange, sender \in Callers, _favorProvider \in BOOLEAN :
       resolveDispute(id, sender, _favorProvider) /\ UNCHANGED factoryVars
  \/ \E id \in IdRange, sender \in Callers :
       cancelInvoice(id, sender) /\ UNCHANGED factoryVars
  \/ \E sender \in AdminCallers, _token \in ListedTokens :
       addSupportedToken(sender, _token) /\ UNCHANGED factoryVars
  \/ \E sender \in AdminCallers, _token \in ListedTokens :
       removeSupportedToken(sender, _token) /\ UNCHANGED factoryVars
  \/ \E sender \in AdminCallers, _feeCollector \in CollectorInputs :
       setFeeCollector(sender, _feeCollector) /\ UNCHANGED factoryVars
  \/ \E sender \in AdminCallers : pause(sender) /\ UNCHANGED factoryVars
  \/ \E sender \in AdminCallers : unpause(sender) /\ UNCHANGED factoryVars
  \/ \E sender \in AdminCallers, _token \in Tokens, _amount \in WithdrawInputs :
       emergencyWithdraw(sender, _token, _amount) /\ UNCHANGED factoryVars
  \/ TransferReturn /\ UNCHANGED factoryVars
  \/ TransferFail /\ UNCHANGED factoryVars
  \/ Tick /\ UNCHANGED factoryVars

Spec == Init /\ [][Next]_vars

\* ------------------------------------------------------------ lifecycle only
\* The six lifecycle functions alone: no administration, and so no emergencyWithdraw.
LifecycleNext ==
  \/ \E c \in CreateInputs :
       /\ createInvoice(c.sender, c.client, c.amount, c.token, c.window, c.discount,
                        c.deadline, c.requiresApproval, c.arbitrator, c.ipfsHash)
       /\ UNCHANGED factoryVars
  \/ \E id \in IdRange, sender \in Callers, value \in ValueInputs :
       makePayment(id, sender, value) /\ UNCHANGED factoryVars
  \/ \E id \in IdRange, sender \in Callers :
       approveInvoice(id, sender) /\ UNCHANGED factoryVars
  \/ \E id \in IdRange, sender \in Callers, _reason \in ReasonInputs :
       raiseDispute(id, sender, _reason) /\ UNCHANGED factoryVars
  \/ \E id \in IdRange, sender \in Callers, _favorProvider \in BOOLEAN :
       resolveDispute(id, sender, _favorProvider) /\ UNCHANGED factoryVars
  \/ \E id \in IdRange, sender \in Callers :
       cancelInvoice(id, sender) /\ UNCHANGED factoryVars
  \/ TransferReturn /\ UNCHANGED factoryVars
  \/ TransferFail /\ UNCHANGED factoryVars
  \/ Tick /\ UNCHANGED factoryVars

LifecycleSpec == Init /\ [][LifecycleNext]_vars

\* ------------------------------------------------------------ InvoiceFactory
\* InvoiceFactory.createInvoice called by user: the factory calls the ledger's
\* createInvoice, so the ledger's msg.sender is the factory; a revert there reverts
\* the factory's call. The id returned is the one the ledger allocated. The accounts
\* call the factory in transactions of their own, not from token code.
InvoiceFactory_createInvoice(user, _client, _amount, _token, _window, _discount, _deadline, _requiresApproval, _arbitrator, _ipfsHash) ==
  /\ stack = <<>>
  /\ createInvoice(FACTORY, _client, _amount, _token, _window, _discount, _deadline,
                   _requiresApproval, _arbitrator, _ipfsHash)
  /\ userInvoices' = [userInvoices EXCEPT ![user] = Append(@, nextInvoiceId)]
  /\ invoiceToContract' = [invoiceToContract EXCEPT ![nextInvoiceId] = LEDGER]
  /\ totalInvoicesCreated' = totalInvoicesCreated + 1
  /\ createdViaFactory' =
       [createdViaFactory EXCEPT ![nextInvoiceId] = [provider |-> user, client |-> _client]]

\* The ledger deployed by the factory's constructor: its owner is the factory, which has
\* no function that calls the ledger's administration. Accounts create invoices through
\* the factory or directly, and call the other lifecycle functions directly.
FactoryNext ==
  \/ \E c \in FactoryInputs :
       InvoiceFactory_createInvoice(c.sender, c.client, c.amount, c.token, c.window,
                                    c.discount, c.deadline, c.requiresApproval,
                                    c.arbitrator, c.ipfsHash)
  \/ \E c \in ValidCreate :
       /\ createInvoice(c.sender, c.client, c.amount, c.token, c.window, c.discount,
                        c.deadline, c.requiresApproval, c.arbitrator, c.ipfsHash)
       /\ UNCHANGED factoryVars
  \/ \E id \in IdRange, sender \in Users, value \in ValueInputs :
       makePayment(id, sender, value) /\ UNCHANGED factoryVars
  \/ \E id \in IdRange, sender \in Users :
       approveInvoice(id, sender) /\ UNCHANGED factoryVars
  \/ \E id \in IdRange, sender \in Users, _reason \in ReasonInputs :
       raiseDispute(id, sender, _reason) /\ UNCHANGED factoryVars
  \/ \E id \in IdRange, sender \in Users, _favorProvider \in BOOLEAN :
       resolveDispute(id, sender, _favorProvider) /\ UNCHANGED factoryVars
  \/ \E id \in IdRange, sender \in Users :
       cancelInvoice(id, sender) /\ UNCHANGED factoryVars
  \/ TransferReturn /\ UNCHANGED factoryVars
  \/ TransferFail /\ UNCHANGED factoryVars
  \/ Tick /\ UNCHANGED factoryVars

FactorySpec == Init /\ [][FactoryNext]_vars

TypeOK ==
  /\ \A i \in IdRange : invoices[i].status \in InvoiceStatus /\ escrowBalances[i] >= 0
  /\ \A t \in Tokens, h \in Holders : balances[t][h] >= 0
  /\ nextInvoiceId \in 1..(MaxInvoices + 1)
  /\ entered \in 0..MaxEntered

\* ------------------------------------------------------------ properties
Terminal == {"Completed", "Cancelled", "Refunded"}
Holding == {"Paid", "Approved", "Disputed"}
Exists(i) == invoices[i].id # 0
\* no suspended call is working on invoice i
NoFrame(i) == \A k \in DOMAIN stack : stack[k].id # i
PaidOutTotal(i) == paidOut[i].provider + paidOut[i].fee + paidOut[i].client

RECURSIVE SumEscrow(_, _)
SumEscrow(ids, t) ==
  IF ids = {} THEN 0
  ELSE LET i == CHOOSE x \in ids : TRUE
       IN (IF Exists(i) /\ invoices[i].token = t THEN escrowBalances[i] ELSE 0)
          + SumEscrow(ids \ {i}, t)

\* C1: of every asset the ledger holds at least the sum of the escrow balances of the
\* invoices in that asset, whatever lifecycle and administrative calls were made.
C1_EscrowCovered ==
  \A t \in Tokens : balances[t][LEDGER] >= SumEscrow(IdRange, t)

\* C2: an invoice that is Completed, Cancelled or Refunded never changes status again
\* (a step that reverts a suspended call undoes writes and is not a change).
C2_TerminalIsFinal ==
  [][(~TransferFail) =>
       \A i \in IdRange : invoices[i].status \in Terminal
                          => invoices'[i].status = invoices[i].status]_vars

\* C3: with token calls as arbitrary code: a Completed or Refunded invoice has escrow
\* balance 0 and keeps that status and balance in every later step, whoever enters the
\* ledger again; what was paid out for an invoice plus what is still recorded as its
\* escrow never exceeds what was paid in, and no invoice is both released and refunded.
C3_Settled(i) == invoices[i].status \in {"Completed", "Refunded"}
C3_SettledOnce ==
  /\ [](\A i \in IdRange :
          /\ C3_Settled(i) => escrowBalances[i] = 0
          /\ escrowBalances[i] + PaidOutTotal(i) <= paidIn[i]
          /\ ~(paidOut[i].client > 0 /\ paidOut[i].provider + paidOut[i].fee > 0))
  /\ [][(~TransferFail) =>
          \A i \in IdRange : C3_Settled(i)
              => /\ invoices'[i].status = invoices[i].status
                 /\ escrowBalances'[i] = 0
                 /\ paidOut'[i] = paidOut[i] \/ ~NoFrame(i)]_vars
\* a call entered the ledger from the token while a settled invoice's transfer was pending
C3_Witness ==
  /\ stack # <<>>
  /\ entered > 0
  /\ stack[1].pc \in {"transferProvider", "transferFee", "transferClient"}
  /\ C3_Settled(stack[1].id)
  /\ escrowBalances[stack[1].id] = 0

\* C4: a function that calls a token has written status, paidAt and escrow balance of
\* its invoice before the call: it writes none of them after a token call returns.
C4_EffectsBeforeTransfers ==
  [][TransferReturn =>
       /\ invoices'[Top.id].status = invoices[Top.id].status
       /\ invoices'[Top.id].paidAt = invoices[Top.id].paidAt
       /\ escrowBalances'[Top.id] = escrowBalances[Top.id]]_vars

\* C5: while makePayment waits for safeTransferFrom, no lifecycle function entered from
\* the token succeeds: records, escrow balances and dispute reasons are as they were
\* when makePayment was entered, so the invoice being paid is still Created.
C5_NoReentryWhilePaying ==
  \A k \in DOMAIN stack :
     (stack[k].op = "makePayment" /\ stack[k].pc = "transferFrom")
     => /\ invoices = stack[k].snap.invoices
        /\ escrowBalances = stack[k].snap.escrowBalances
        /\ disputeReasons = stack[k].snap.disputeReasons
        /\ invoices[stack[k].id].status = "Created"

\* C6: an invoice that is not Paid, Approved or Disputed (Created, Completed, Cancelled,
\* Refunded, or not created) has escrow balance 0.
C6_NoEscrowOutsideHolding ==
  \A i \in IdRange : invoices[i].status \notin Holding => escrowBalances[i] = 0
C6_Witness ==
  \E i \in IdRange : /\ invoices[i].status \in {"Completed", "Refunded"}
                     /\ paidIn[i] > 0
                     /\ escrowBalances[i] = 0

\* C7: the escrow balance E of a paid invoice is what was paid in, and once the invoice
\* is settled in favour of the provider the fee collector has received floor(E*50/10000)
\* and the provider E minus that, together exactly E.
C7_FeeSplit ==
  \A i \in IdRange :
    /\ invoices[i].status \in {"Paid", "Disputed"} => escrowBalances[i] = paidIn[i]
    /\ (invoices[i].status = "Completed" /\ NoFrame(i))
       => /\ paidOut[i].fee = (paidIn[i] * 50) \div 10000
          /\ paidOut[i].provider = paidIn[i] - paidOut[i].fee
          /\ paidOut[i].provider + paidOut[i].fee = paidIn[i]
          /\ paidOut[i].client = 0
\* E = 950 gives fee 4 and provider 946
C7_Witness ==
  \E i \in IdRange : /\ invoices[i].status = "Completed"
                     /\ NoFrame(i)
                     /\ paidIn[i] = 950
                     /\ paidOut[i].fee = 4
                     /\ paidOut[i].provider = 946

\* C8: what a payment takes from the client and records as escrow is
\* amount - floor(amount*d/10000) if d > 0 and it was made no later than the early
\* payment deadline, and amount otherwise.
C8_Expected(inv) ==
  IF inv.terms.earlyPaymentDiscountBps > 0 /\ inv.paidAt <= inv.terms.earlyPaymentDeadline
  THEN inv.amount - ((inv.amount * inv.terms.earlyPaymentDiscountBps) \div 10000)
  ELSE inv.amount
C8_PaymentAmount ==
  \A i \in IdRange :
    paidIn[i] > 0
    => /\ paidIn[i] = C8_Expected(invoices[i])
       /\ invoices[i].status \in {"Paid", "Disputed"}
          => escrowBalances[i] = C8_Expected(invoices[i])
\* a discounted payment made exactly at the deadline
C8_Witness ==
  \E i \in IdRange : /\ invoices[i].terms.earlyPaymentDiscountBps > 0
                     /\ invoices[i].paidAt = invoices[i].terms.earlyPaymentDeadline
                     /\ paidIn[i] = 950
                     /\ paidIn[i] < invoices[i].amount

\* C9: no payment is recorded after the due date, and no step taken after the due date
\* of a Created invoice pays it: it stays Created (or is cancelled) with paidAt, escrow
\* balance and paid-in amount unchanged.  A payment at the due date is accepted.
C9_ExpiredNotPayable ==
  /\ [](\A i \in IdRange : invoices[i].paidAt # 0 => invoices[i].paidAt <= invoices[i].dueDate)
  /\ [][\A i \in IdRange :
          (Exists(i) /\ invoices[i].status = "Created" /\ now > invoices[i].dueDate)
          => /\ invoices'[i].status \in {"Created", "Cancelled"}
             /\ invoices'[i].paidAt = invoices[i].paidAt
             /\ escrowBalances'[i] = escrowBalances[i]
             /\ paidIn'[i] = paidIn[i]]_vars
\* one invoice paid exactly at its due date, another expired unpaid though the client
\* holds its amount
C9_Witness ==
  \E i, j \in IdRange :
    /\ paidIn[i] > 0
    /\ invoices[i].paidAt = invoices[i].dueDate
    /\ Exists(j)
    /\ invoices[j].status = "Created"
    /\ now > invoices[j].dueDate
    /\ balances[invoices[j].token]["cli"] >= invoices[j].amount

\* C10: a payment of an invoice that requires approval leaves it Paid with paidAt = now,
\* escrow balance equal to the amount taken and nothing sent out; an invoice that does
\* not require approval is, once its payment call is over, Completed with escrow
\* balance 0 and the amount taken sent to provider and fee collector.
C10_PaymentOutcome ==
  /\ [](\A i \in IdRange :
          (Exists(i) /\ ~invoices[i].terms.requiresApproval /\ paidIn[i] > 0 /\ NoFrame(i))
          => /\ invoices[i].status = "Completed"
             /\ escrowBalances[i] = 0
             /\ paidOut[i].provider + paidOut[i].fee = paidIn[i]
             /\ paidOut[i].client = 0)
  /\ [][\A i \in IdRange :
          (paidIn'[i] > paidIn[i] /\ ~TransferFail)
          => /\ invoices'[i].paidAt = now
             /\ invoices[i].terms.requiresApproval
                => /\ invoices'[i].status = "Paid"
                   /\ escrowBalances'[i] = paidIn'[i] - paidIn[i]
                   /\ paidOut'[i] = NoPayout
                   /\ \A k \in DOMAIN stack' : stack'[k].id # i]_vars
C10_Witness ==
  \E i, j \in IdRange :
    /\ invoices[i].terms.requiresApproval
    /\ invoices[i].status = "Paid"
    /\ escrowBalances[i] = paidIn[i]
    /\ paidIn[i] > 0
    /\ invoices[i].paidAt = now
    /\ Exists(j)
    /\ ~invoices[j].terms.requiresApproval
    /\ invoices[j].status = "Completed"
    /\ paidOut[j].provider + paidOut[j].fee = paidIn[j]
    /\ paidIn[j] > 0

\* C11: a payment of a native-asset invoice takes exactly the computed payment amount
\* from the client, no more and no less, and a payment of a token invoice moves no
\* native value; a call that sends any other value is refused (it is no step).
C11_Due(inv) ==
  IF inv.terms.earlyPaymentDiscountBps > 0 /\ now <= inv.terms.earlyPaymentDeadline
  THEN inv.amount - ((inv.amount * inv.terms.earlyPaymentDiscountBps) \div 10000)
  ELSE inv.amount
C11_Refused(i, sender, value) ==
  (Exists(i) /\ value # (IF invoices[i].token = ZERO THEN C11_Due(invoices[i]) ELSE 0))
  => ~ENABLED makePayment(i, sender, value)
C11_PaymentStarts(i) ==
  /\ Len(stack') = Len(stack) + 1
  /\ stack'[Len(stack')].op = "makePayment"
  /\ stack'[Len(stack')].pc = "transferFrom"
  /\ stack'[Len(stack')].id = i
C11_ExactValue ==
  /\ [](\A i \in IdRange, sender \in Callers, value \in ValueInputs :
          C11_Refused(i, sender, value))
  /\ [][\A i \in IdRange :
          /\ (invoices[i].token = ZERO /\ paidIn'[i] > paidIn[i])
             => /\ paidIn'[i] - paidIn[i] = C11_Due(invoices[i])
                /\ balances[ZERO][invoices[i].client] - balances'[ZERO][invoices[i].client]
                     = C11_Due(invoices[i])
                /\ escrowBalances'[i] \in {0, C11_Due(invoices[i])}
          /\ (invoices[i].token # ZERO /\ (C11_PaymentStarts(i) \/ paidIn'[i] > paidIn[i]))
             => balances'[ZERO] = balances[ZERO]]_vars
\* a native invoice of 1000 paid with 950 by a client who held more, and a token
\* invoice paid while the client still held native value
C11_Witness ==
  \E i, j \in IdRange :
    /\ invoices[i].token = ZERO
    /\ invoices[i].amount = 1000
    /\ paidIn[i] = 950
    /\ Exists(j)
    /\ invoices[j].token # ZERO
    /\ paidIn[j] > 0
    /\ balances[ZERO][invoices[j].client] > 0

\* C12: every invoice starts Created, and the only status changes are Created->Paid,
\* Created->Completed, Paid->Completed, Paid->Disputed, Approved->Disputed,
\* Disputed->Completed, Disputed->Refunded and Created->Cancelled (a step that reverts
\* a suspended call undoes writes and is not a change).
C12_Changes ==
  {<<"Created", "Paid">>, <<"Created", "Completed">>, <<"Paid", "Completed">>,
   <<"Paid", "Disputed">>, <<"Approved", "Disputed">>, <<"Disputed", "Completed">>,
   <<"Disputed", "Refunded">>, <<"Created", "Cancelled">>}
C12_OnlyListedChanges ==
  [][(~TransferFail) =>
       \A i \in IdRange :
         /\ (~Exists(i) /\ invoices'[i].id # 0) => invoices'[i].status = "Created"
         /\ (Exists(i) /\ invoices'[i].status # invoices[i].status)
            => <<invoices[i].status, invoices'[i].status>> \in C12_Changes]_vars

\* C13: an invoice can be disputed while Approved: the approval of a paid invoice
\* (approveInvoice by its client) leaves it in status Approved, where raiseDispute by
\* its provider or client is accepted and moves it to Disputed.
C13_DisputableWhileApproved ==
  [][\A i \in IdRange, sender \in Callers :
       approveInvoice(i, sender)
       => /\ invoices'[i].status = "Approved"
          /\ raiseDisputeOk(i, invoices[i].provider, "late")'
          /\ raiseDisputeOk(i, invoices[i].client, "late")']_vars
\* In fact no state shows an invoice Approved, nor does any suspended call's entry state:
\* every dispute is raised on a Paid invoice.
C13_NeverApproved ==
  /\ [](\A i \in IdRange :
          /\ invoices[i].status # "Approved"
          /\ \A k \in DOMAIN stack : stack[k].snap.invoices[i].status # "Approved")
  /\ [][\A i \in IdRange :
          (invoices'[i].status = "Disputed" /\ invoices[i].status # "Disputed"
           /\ ~TransferFail)
          => invoices[i].status = "Paid"]_vars

\* C14: resolveDispute is accepted only on a Disputed invoice and only from its
\* arbitrator or the owner; it leaves escrow balance 0 and status Refunded with the
\* whole escrow sent to the client (favorProvider = false), or status Completed with
\* floor(E*50/10000) sent to the fee collector and the rest to the provider
\* (favorProvider = true).  From anyone else it is refused and changes nothing.
C14_Resolvers(i) == {invoices[i].terms.arbitrator, OWNER}
C14_Fee(E) == (E * 50) \div 10000
C14_Sent(i, pc, to, amt) ==
  IF invoices[i].token = ZERO
  THEN /\ balances'[ZERO][to] = balances[ZERO][to] + amt
       /\ balances'[ZERO][LEDGER] = balances[ZERO][LEDGER] - escrowBalances[i]
  ELSE /\ Len(stack') = Len(stack) + 1
       /\ stack'[Len(stack')].pc = pc
       /\ stack'[Len(stack')].id = i
       /\ stack'[Len(stack')].to = to
       /\ stack'[Len(stack')].amt = amt
C15_RefusedFor(i, sender) ==
  /\ sender # invoices[i].client
     => /\ \A value \in ValueInputs : ~ENABLED makePayment(i, sender, value)
        /\ ~ENABLED approveInvoice(i, sender)
  /\ sender # invoices[i].provider => ~ENABLED cancelInvoice(i, sender)
  /\ sender \notin {invoices[i].provider, invoices[i].client}
     => \A _reason \in ReasonInputs : ~ENABLED raiseDispute(i, sender, _reason)
C16_RefusedIn(i, sender) ==
  /\ invoices[i].status # "Created"
     => /\ \A value \in ValueInputs : ~ENABLED makePayment(i, sender, value)
        /\ ~ENABLED cancelInvoice(i, sender)
  /\ invoices[i].status # "Paid" => ~ENABLED approveInvoice(i, sender)
  /\ invoices[i].status \notin {"Paid", "Approved"}
     => \A _reason \in ReasonInputs : ~ENABLED raiseDispute(i, sender, _reason)
  /\ invoices[i].status # "Disputed"
     => \A fp \in BOOLEAN : ~ENABLED resolveDispute(i, sender, fp)
C16_StatusEnforced ==
  /\ [](\A i \in IdRange, sender \in Callers : C16_RefusedIn(i, sender))
  /\ [](\A i \in IdRange :
          invoices[i].status = "Cancelled" => paidIn[i] = 0 /\ escrowBalances[i] = 0)
  /\ [][\A i \in IdRange :
          (paidIn[i] > 0 /\ ~TransferFail) => invoices'[i].status # "Cancelled"]_vars
\* a paid token invoice, not expired, with the ledger neither paused nor inside a call:
\* its provider cannot cancel it and its client cannot pay it again
C16_Witness ==
  \E i \in IdRange :
    /\ invoices[i].status = "Paid"
    /\ escrowBalances[i] > 0
    /\ ~paused
    /\ stack = <<>>
    /\ now <= invoices[i].dueDate
    /\ invoices[i].token # ZERO
    /\ ~ENABLED cancelInvoice(i, invoices[i].provider)
    /\ \A value \in ValueInputs : ~ENABLED makePayment(i, invoices[i].client, value)
    /\ ENABLED approveInvoice(i, invoices[i].client)

\* C17: on an invoice that is Completed, makePayment, approveInvoice and resolveDispute
\* are refused for every caller and input, and once its settlement's transfers are done
\* nothing is taken for it or sent for it again and its escrow balance stays 0.
C17_RefusedOnCompleted(i) ==
  \A sender \in Callers :
    /\ \A value \in ValueInputs : ~ENABLED makePayment(i, sender, value)
    /\ ~ENABLED approveInvoice(i, sender)
    /\ \A fp \in BOOLEAN : ~ENABLED resolveDispute(i, sender, fp)
C17_SettlementIdempotent ==
  /\ [](\A i \in IdRange : invoices[i].status = "Completed" => C17_RefusedOnCompleted(i))
  /\ [][\A i \in IdRange :
          (invoices[i].status = "Completed" /\ NoFrame(i) /\ ~TransferFail)
          => /\ invoices'[i] = invoices[i]
             /\ escrowBalances'[i] = 0
             /\ paidIn'[i] = paidIn[i]
             /\ paidOut'[i] = paidOut[i]
             /\ \A k \in DOMAIN stack' : stack'[k].id # i]_vars
\* a settled token invoice, not expired, with the ledger neither paused nor inside a call
C17_Witness ==
  \E i \in IdRange :
    /\ invoices[i].status = "Completed"
    /\ invoices[i].token # ZERO
    /\ paidOut[i].provider + paidOut[i].fee = paidIn[i]
    /\ paidIn[i] > 0
    /\ ~paused
    /\ stack = <<>>
    /\ now <= invoices[i].dueDate
    /\ C17_RefusedOnCompleted(i)

\* C18 (as claimed): when a transfer to the provider or the fee collector fails during
\* settlement the invoice stays finalized, Completed with escrow balance 0, the funds
\* still held by the ledger; when makePayment's inbound transfer fails the call aborts
\* and the state is as it was when the call was entered.
C18_AsEntered(f) ==
  /\ invoices' = f.snap.invoices
  /\ escrowBalances' = f.snap.escrowBalances
  /\ disputeReasons' = f.snap.disputeReasons
  /\ balances' = f.snap.balances
  /\ paidIn' = f.snap.paidIn
  /\ paidOut' = f.snap.paidOut
C18_FinalizedDespiteFailure ==
  [][TransferFail =>
       /\ Top.pc \in {"transferProvider", "transferFee"}
          => /\ invoices'[Top.id].status = "Completed"
             /\ escrowBalances'[Top.id] = 0
             /\ balances'[invoices[Top.id].token][LEDGER] >= Top.amt
       /\ Top.pc = "transferFrom" => C18_AsEntered(Top)]_vars

\* C18 (amended): a failing transfer reverts the whole call, outbound as well as inbound:
\* the state is as it was when the call was entered, so after a failed settlement the
\* invoice is not finalized (it is Created, Paid or Disputed again), nothing has been
\* sent for it and its escrow balance is again all that was paid in.
C18_FailureReverts ==
  [][TransferFail =>
       /\ C18_AsEntered(Top)
       /\ stack' = Pop
       /\ Top.pc \in {"transferProvider", "transferFee", "transferClient"}
          => /\ invoices'[Top.id].status \in {"Created", "Paid", "Disputed"}
             /\ escrowBalances'[Top.id] = paidIn'[Top.id]
             /\ paidOut'[Top.id] = NoPayout
       /\ Top.pc = "transferFrom"
          => /\ invoices'[Top.id].status = "Created"
             /\ escrowBalances'[Top.id] = 0
             /\ paidIn'[Top.id] = 0]_vars
\* the provider has been paid, the invoice is Completed with escrow balance 0, and the
\* transfer to the fee collector, which may now fail, is pending
C18_Witness ==
  /\ Len(stack) = 1
  /\ Top.pc = "transferFee"
  /\ Top.op = "approveInvoice"
  /\ invoices[Top.id].status = "Completed"
  /\ escrowBalances[Top.id] = 0
  /\ paidOut[Top.id].provider > 0
  /\ Top.snap.invoices[Top.id].status = "Paid"
  /\ Top.snap.escrowBalances[Top.id] = paidIn[Top.id]

\* C19 (as claimed): createInvoice is refused, allocating no id and changing no record,
\* index or counter, when the client is empty or the caller, the amount is 0, the token
\* is not on the allow-list, the window is outside [86400, 7776000], the discount
\* exceeds 1000 or the metadata reference is empty; when none of these holds and the
\* ledger is not paused it succeeds.
C19_Call(c) ==
  createInvoice(c.sender, c.client, c.amount, c.token, c.window, c.discount, c.deadline,
                c.requiresApproval, c.arbitrator, c.ipfsHash)
C19_Faulty(c) ==
  \/ c.client = ZERO
  \/ c.client = c.sender
  \/ c.amount = 0
  \/ ~supportedTokens[c.token]
  \/ c.window < 86400
  \/ c.window > 7776000
  \/ c.discount > 1000
  \/ c.ipfsHash = ""
\* a call can be made and an id is left within the bound on invoices
C19_Callable == CanCall /\ nextInvoiceId <= MaxInvoices
\* every creation is of valid terms, takes the next id and extends the two indexes; no
\* other step touches the counter or the indexes
C19_CreationsValid ==
  [][(~TransferFail) =>
       /\ nextInvoiceId' \in {nextInvoiceId, nextInvoiceId + 1}
       /\ nextInvoiceId' = nextInvoiceId
          => /\ providerInvoices' = providerInvoices
             /\ clientInvoices' = clientInvoices
             /\ \A i \in IdRange : Exists(i) <=> invoices'[i].id # 0
       /\ nextInvoiceId' = nextInvoiceId + 1
          => LET inv == invoices'[nextInvoiceId] IN
             /\ inv.id = nextInvoiceId
             /\ inv.client # ZERO /\ inv.client # inv.provider
             /\ inv.amount > 0
             /\ supportedTokens[inv.token]
             /\ inv.terms.paymentWindow \in 86400..7776000
             /\ inv.terms.earlyPaymentDiscountBps <= 1000
             /\ inv.ipfsHash # ""
             /\ providerInvoices' = [providerInvoices EXCEPT
                                       ![inv.provider] = Append(@, nextInvoiceId)]
             /\ clientInvoices' = [clientInvoices EXCEPT
                                     ![inv.client] = Append(@, nextInvoiceId)]
             /\ \A i \in IdRange \ {nextInvoiceId} : invoices'[i] = invoices[i]]_vars
C19_CreateAccepted ==
  /\ [](\A c \in CreateInputs :
          C19_Callable => (ENABLED C19_Call(c) <=> (~C19_Faulty(c) /\ ~paused)))
  /\ C19_CreationsValid

\* C19 (amended): as claimed, except that a valid createInvoice succeeds only when the
\* ledger is not paused and no nonReentrant function is executing: entered from the
\* token's code while makePayment waits for safeTransferFrom, it is refused.
C19_CreateAcceptedUnlessLocked ==
  /\ [](\A c \in CreateInputs :
          C19_Callable => (ENABLED C19_Call(c) <=> (~C19_Faulty(c) /\ ~paused /\ ~locked)))
  /\ [][(~TransferFail) => (nextInvoiceId' # nextInvoiceId => ~paused /\ ~locked)]_vars
  /\ C19_CreationsValid
\* one invoice exists, the token has been taken off the allow-list, the ledger is not
\* paused: native-asset terms are accepted, token terms and all faulty terms are refused
C19_Witness ==
  /\ nextInvoiceId = 2
  /\ Exists(1)
  /\ ~supportedTokens[USDC]
  /\ ~paused
  /\ stack = <<>>
  /\ ENABLED C19_Call(Terms(ZERO, 0, TRUE))
  /\ ~ENABLED C19_Call(Terms(USDC, 0, FALSE))
  /\ \A c \in RefusedCreate : ~ENABLED C19_Call(c)

\* C20: an invoice created at time t with window w and discount d has status Created,
\* paidAt 0, dueDate = t + w and earlyPaymentDeadline = t + floor(w/2) if d > 0 and 0 if
\* d = 0, whatever earlyPaymentDeadline the caller passed; the dates never change.
C20_Dates(inv) ==
  /\ inv.dueDate = inv.createdAt + inv.terms.paymentWindow
  /\ inv.terms.earlyPaymentDiscountBps > 0
     => inv.terms.earlyPaymentDeadline = inv.createdAt + (inv.terms.paymentWindow \div 2)
  /\ inv.terms.earlyPaymentDiscountBps = 0 => inv.terms.earlyPaymentDeadline = 0
C20_Created(c) ==
  C19_Call(c)
  => LET inv == invoices'[nextInvoiceId] IN
     /\ inv.status = "Created"
     /\ inv.paidAt = 0
     /\ inv.createdAt = now
     /\ inv.terms.paymentWindow = c.window
     /\ inv.terms.earlyPaymentDiscountBps = c.discount
     /\ inv.terms.earlyPaymentDeadline # c.deadline
     /\ C20_Dates(inv)
C20_DerivedDates ==
  /\ [](\A i \in IdRange : Exists(i) => C20_Dates(invoices[i]))
  /\ [][\A c \in CreateInputs : C20_Created(c)]_vars
\* a discounted invoice with a window of 86401 seconds, created after time has passed:
\* its early payment deadline is 43200 seconds after its creation, not the 7 passed
C20_Witness ==
  \E i, j \in IdRange :
    /\ invoices[i].terms.earlyPaymentDiscountBps > 0
    /\ invoices[i].terms.paymentWindow = 86401
    /\ invoices[i].createdAt > StartTime
    /\ invoices[i].terms.earlyPaymentDeadline = invoices[i].createdAt + 43200
    /\ invoices[i].dueDate = invoices[i].createdAt + 86401
    /\ Exists(j)
    /\ invoices[j].terms.earlyPaymentDiscountBps = 0
    /\ invoices[j].terms.earlyPaymentDeadline = 0

\* C21: the existing invoices are exactly the ids 1 .. nextInvoiceId - 1, each stored
\* under its own id; a creation stores the invoice under the previous nextInvoiceId and
\* advances the counter by one, no other step moves the counter, and no invoice is
\* deleted or stored again (a step that reverts a suspended call undoes a creation made
\* inside it and is not a deletion).
C21_UniqueIds ==
  /\ [](\A i \in IdRange :
          /\ Exists(i) <=> i < nextInvoiceId
          /\ Exists(i) => invoices[i].id = i)
  /\ [](nextInvoiceId >= 1)
  /\ [][(~TransferFail) =>
          /\ nextInvoiceId' \in {nextInvoiceId, nextInvoiceId + 1}
          /\ \A i \in IdRange :
               /\ Exists(i) => /\ invoices'[i].id = i
                               /\ invoices'[i].createdAt = invoices[i].createdAt
                               /\ invoices'[i].provider = invoices[i].provider
               /\ (~Exists(i) /\ invoices'[i].id # 0)
                  => /\ i = nextInvoiceId
                     /\ nextInvoiceId' = i + 1
          /\ nextInvoiceId' = nextInvoiceId + 1 => invoices'[nextInvoiceId].id = nextInvoiceId
         ]_vars
\* two invoices created one after the other, the second later than the first
C21_Witness ==
  /\ nextInvoiceId = 3
  /\ invoices[1].id = 1
  /\ invoices[2].id = 2
  /\ invoices[1].createdAt < invoices[2].createdAt
  /\ invoices[1].status # "Created"

\* C22: every existing invoice has a non-empty client, and its provider is not its client.
C22_DistinctParties ==
  \A i \in IdRange :
    Exists(i) => /\ invoices[i].client # ZERO
                 /\ invoices[i].provider # invoices[i].client
\* a settled invoice of two parties, in a state where a creation is accepted but one
\* with an empty client and one naming the caller as client are refused
C22_Witness ==
  /\ Exists(1)
  /\ invoices[1].status = "Completed"
  /\ invoices[1].provider = "prov"
  /\ invoices[1].client = "cli"
  /\ ~paused
  /\ stack = <<>>
  /\ supportedTokens[USDC]
  /\ ENABLED C19_Call(BaseCreate)
  /\ ~ENABLED C19_Call([BaseCreate EXCEPT !.client = ZERO])
  /\ ~ENABLED C19_Call([BaseCreate EXCEPT !.sender = "cli"])

\* C23: once an invoice exists no step changes its payment terms, id, provider, client,
\* amount, token, createdAt, dueDate or metadata reference: of the record only status
\* and paidAt ever change (a step that reverts a suspended call undoes a creation made
\* inside it and is not a change of the record).
C23_Fixed(inv) == [inv EXCEPT !.status = "Created", !.paidAt = 0]
C23_TermsImmutable ==
  [][(~TransferFail) =>
       \A i \in IdRange : Exists(i) => C23_Fixed(invoices'[i]) = C23_Fixed(invoices[i])]_vars
\* an invoice of 1000 paid early with 950, disputed and refunded, at a later time
C23_Witness ==
  \E i \in IdRange :
    /\ invoices[i].status = "Refunded"
    /\ invoices[i].amount = 1000
    /\ paidIn[i] = 950
    /\ invoices[i].paidAt # 0
    /\ now > invoices[i].paidAt
    /\ invoices[i].terms.earlyPaymentDiscountBps = 500
    /\ invoices[i].terms.requiresApproval

\* C24: while the ledger is paused createInvoice, makePayment, approveInvoice,
\* raiseDispute, resolveDispute and cancelInvoice are refused for every caller and
\* input, and no step changes an invoice or an escrow balance, or moves an asset other
\* than by emergencyWithdraw; the owner can still add and remove a token, set the fee
\* collector, unpause, and withdraw what the ledger holds.
C24_LifecycleRefused ==
  /\ \A c \in CreateInputs : ~ENABLED C19_Call(c)
  /\ \A i \in IdRange, sender \in Callers :
       /\ \A value \in ValueInputs : ~ENABLED makePayment(i, sender, value)
       /\ ~ENABLED approveInvoice(i, sender)
       /\ \A _reason \in ReasonInputs : ~ENABLED raiseDispute(i, sender, _reason)
       /\ \A fp \in BOOLEAN : ~ENABLED resolveDispute(i, sender, fp)
       /\ ~ENABLED cancelInvoice(i, sender)
C24_AdminCallable ==
  /\ ENABLED unpause(OWNER)
  /\ \A _token \in ListedTokens :
       ENABLED addSupportedToken(OWNER, _token) /\ ENABLED removeSupportedToken(OWNER, _token)
  /\ \A _feeCollector \in Collectors : ENABLED setFeeCollector(OWNER, _feeCollector)
  /\ \A _token \in Tokens, _amount \in WithdrawInputs :
       balances[_token][LEDGER] >= _amount => ENABLED emergencyWithdraw(OWNER, _token, _amount)
C24_Paused ==
  /\ [](paused => stack = <<>> /\ C24_LifecycleRefused /\ C24_AdminCallable)
  /\ [][paused =>
          /\ invoices' = invoices
          /\ escrowBalances' = escrowBalances
          /\ disputeReasons' = disputeReasons
          /\ nextInvoiceId' = nextInvoiceId
          /\ balances' # balances
             => \E _token \in Tokens, _amount \in WithdrawInputs :
                   emergencyWithdraw(OWNER, _token, _amount)]_vars
\* paused with a disputed invoice in escrow and a Created one not expired: neither can
\* be acted on, while the owner can unpause and can withdraw the escrowed asset
C24_Witness ==
  \E i, j \in IdRange :
    /\ paused
    /\ invoices[i].status = "Disputed"
    /\ escrowBalances[i] > 0
    /\ ~ENABLED resolveDispute(i, invoices[i].terms.arbitrator, FALSE)
    /\ Exists(j)
    /\ invoices[j].status = "Created"
    /\ now <= invoices[j].dueDate
    /\ ~ENABLED cancelInvoice(j, invoices[j].provider)
    /\ ENABLED unpause(OWNER)
    /\ ENABLED emergencyWithdraw(OWNER, invoices[i].token, 950)

\* C25: pause and unpause change nothing but the pause switch: no invoice, escrow
\* balance, dispute reason or holding; the escrow balances stay as they are while the
\* ledger is paused, and whenever it is not paused a Disputed invoice whose escrow the
\* ledger holds can be resolved by its arbitrator, to Completed as well as to Refunded.
C25_Resolved(i, fp) ==
  /\ resolveDispute(i, invoices[i].terms.arbitrator, fp)
  /\ invoices'[i].status = IF fp THEN "Completed" ELSE "Refunded"
  /\ escrowBalances'[i] = 0
C25_PauseKeepsEscrow ==
  /\ [][paused' # paused =>
          /\ pause(OWNER) \/ unpause(OWNER)
          /\ invoices' = invoices
          /\ escrowBalances' = escrowBalances
          /\ disputeReasons' = disputeReasons
          /\ balances' = balances
          /\ paidIn' = paidIn /\ paidOut' = paidOut]_vars
  /\ [][paused => escrowBalances' = escrowBalances /\ invoices' = invoices]_vars
  /\ [](\A i \in IdRange :
          (~paused /\ stack = <<>> /\ invoices[i].status = "Disputed"
           /\ balances[invoices[i].token][LEDGER] >= escrowBalances[i])
          => /\ escrowBalances[i] = paidIn[i]
             /\ escrowBalances[i] > 0
             /\ \A fp \in BOOLEAN : ENABLED C25_Resolved(i, fp))
\* paused while a disputed invoice holds all that was paid for it, at a later time than
\* the payment
C25_Witness ==
  \E i \in IdRange :
    /\ paused
    /\ invoices[i].status = "Disputed"
    /\ escrowBalances[i] = paidIn[i]
    /\ paidIn[i] > 0
    /\ balances[invoices[i].token][LEDGER] >= escrowBalances[i]
    /\ now > invoices[i].paidAt
    /\ ENABLED unpause(OWNER)

\* C26: a change of the allow-list changes no invoice, escrow balance or holding, and
\* bears on createInvoice alone: whether or not its token is on the list, a token
\* invoice can be paid and cancelled while Created, approved and disputed while Paid and
\* resolved while Disputed, by the same parties under the same conditions.
C26_Open == ~paused /\ CanCall
C26_StillUsable(i) ==
  LET inv == invoices[i] IN
  /\ (inv.status = "Created" /\ ~locked /\ now <= inv.dueDate)
     => ENABLED makePayment(i, inv.client, 0)
  /\ inv.status = "Created" => ENABLED cancelInvoice(i, inv.provider)
  /\ (inv.status = "Paid" /\ inv.terms.requiresApproval) => ENABLED approveInvoice(i, inv.client)
  /\ inv.status = "Paid"
     => ENABLED raiseDispute(i, inv.provider, "late") /\ ENABLED raiseDispute(i, inv.client, "late")
  /\ inv.status = "Disputed"
     => \A fp \in BOOLEAN : ENABLED resolveDispute(i, inv.terms.arbitrator, fp)
C26_AllowListForCreationOnly ==
  /\ [][supportedTokens' # supportedTokens =>
          /\ \E _token \in ListedTokens :
                addSupportedToken(OWNER, _token) \/ removeSupportedToken(OWNER, _token)
          /\ invoices' = invoices
          /\ escrowBalances' = escrowBalances
          /\ disputeReasons' = disputeReasons
          /\ balances' = balances]_vars
  /\ [](\A i \in IdRange :
          (Exists(i) /\ invoices[i].token # ZERO /\ C26_Open) => C26_StillUsable(i))
  /\ [][(~TransferFail /\ nextInvoiceId' # nextInvoiceId)
          => supportedTokens[invoices'[nextInvoiceId].token]]_vars
\* the token is off the list: a further invoice in it is refused, while the existing one
\* can be paid by its client and cancelled by its provider
C26_Witness ==
  \E i \in IdRange :
    /\ ~supportedTokens[USDC]
    /\ invoices[i].token = USDC
    /\ invoices[i].status = "Created"
    /\ nextInvoiceId <= MaxInvoices
    /\ ~paused
    /\ stack = <<>>
    /\ ~ENABLED C19_Call(BaseCreate)
    /\ ENABLED C19_Call(Terms(ZERO, 0, TRUE))
    /\ ENABLED makePayment(i, invoices[i].client, 0)
    /\ ENABLED cancelInvoice(i, invoices[i].provider)

\* C27: the fee collector is never the empty identity: the ledger is constructed with a
\* non-empty one, setFeeCollector is refused with the empty identity and from anyone
\* but the owner, and the fee collector changes only by the owner's setFeeCollector.
C27_FeeCollectorSet ==
  /\ [](feeCollector # ZERO)
  /\ [](\A sender \in AdminCallers, _feeCollector \in CollectorInputs :
          (sender # OWNER \/ _feeCollector = ZERO)
          => ~ENABLED setFeeCollector(sender, _feeCollector))
  /\ [][feeCollector' # feeCollector =>
          /\ feeCollector' # ZERO
          /\ setFeeCollector(OWNER, feeCollector')]_vars
\* both collectors have received a fee, so the fee collector was changed in between
C27_Witness ==
  \E t1, t2 \in Tokens :
    /\ balances[t1]["fc"] > 0
    /\ balances[t2]["fc2"] > 0
    /\ stack = <<>>
    /\ ENABLED setFeeCollector(OWNER, "fc")
    /\ ~ENABLED setFeeCollector(OWNER, ZERO)
    /\ ~ENABLED setFeeCollector("cli", "fc")

\* C28 (as claimed): every invoice whose status is not Disputed has an empty dispute
\* reason.
C28_ReasonOnlyWhileDisputed ==
  \A i \in IdRange : invoices[i].status # "Disputed" => disputeReasons[i] = ""

\* C28 (amended): a dispute reason is written only by raiseDispute, as the invoice
\* becomes Disputed, and is kept when the dispute is resolved: a Disputed invoice has a
\* non-empty reason, and an invoice with a non-empty reason is Disputed or was resolved
\* (Completed or Refunded).
C28_ReasonSetByDispute ==
  /\ [](\A i \in IdRange :
          /\ invoices[i].status = "Disputed" => disputeReasons[i] # ""
          /\ disputeReasons[i] # "" => invoices[i].status \in {"Disputed", "Completed", "Refunded"})
  /\ [][(~TransferFail) =>
          \A i \in IdRange :
            /\ disputeReasons'[i] # disputeReasons[i]
               => /\ invoices[i].status = "Paid"
                  /\ invoices'[i].status = "Disputed"
                  /\ disputeReasons[i] = ""
            /\ (invoices[i].status = "Disputed" /\ invoices'[i].status # "Disputed")
               => disputeReasons'[i] = disputeReasons[i]]_vars
\* a resolved dispute, its reason still recorded
C28_Witness ==
  \E i \in IdRange :
    /\ invoices[i].status = "Refunded"
    /\ disputeReasons[i] = "late"
    /\ escrowBalances[i] = 0
    /\ NoFrame(i)

\* C29: the provider index of an identity lists exactly the ids of the invoices it is
\* the provider of, the client index exactly those it is the client of, each id once
\* and in creation order; an index changes only by a creation, which appends to it (a
\* step that reverts a suspended call undoes a creation made inside it).
RECURSIVE C29_ProvidedBy(_, _)
C29_ProvidedBy(a, n) ==
  IF n = 0 THEN <<>>
  ELSE IF Exists(n) /\ invoices[n].provider = a
       THEN Append(C29_ProvidedBy(a, n - 1), n)
       ELSE C29_ProvidedBy(a, n - 1)
RECURSIVE C29_OwedBy(_, _)
C29_OwedBy(a, n) ==
  IF n = 0 THEN <<>>
  ELSE IF Exists(n) /\ invoices[n].client = a
       THEN Append(C29_OwedBy(a, n - 1), n)
       ELSE C29_OwedBy(a, n - 1)
C29_Extends(new, old) ==
  /\ Len(new) >= Len(old)
  /\ SubSeq(new, 1, Len(old)) = old
C29_IndicesDerived ==
  /\ [](\A a \in Callers :
          /\ providerInvoices[a] = C29_ProvidedBy(a, MaxInvoices)
          /\ clientInvoices[a] = C29_OwedBy(a, MaxInvoices))
  /\ [][(~TransferFail) =>
          /\ \A a \in Callers : /\ C29_Extends(providerInvoices'[a], providerInvoices[a])
                                /\ C29_Extends(clientInvoices'[a], clientInvoices[a])
          /\ (providerInvoices' # providerInvoices \/ clientInvoices' # clientInvoices)
             => /\ nextInvoiceId' = nextInvoiceId + 1
                /\ \E c \in CreateInputs : C19_Call(c)]_vars
\* two invoices of one provider and one client, the first of them settled
C29_Witness ==
  /\ providerInvoices["prov"] = <<1, 2>>
  /\ clientInvoices["cli"] = <<1, 2>>
  /\ providerInvoices["cli"] = <<>>
  /\ clientInvoices["prov"] = <<>>
  /\ invoices[1].status = "Completed"
  /\ invoices[2].status = "Cancelled"

\* C30: two operations enabled on one invoice do not interleave, and the one that comes
\* second is refused: while the client's makePayment is in progress the provider's
\* cancelInvoice is refused and while approveInvoice is in progress raiseDispute is
\* refused; once an invoice is Cancelled no payment for it is accepted or completes,
\* once it is paid it cannot be cancelled, once it is approved it cannot be disputed and
\* once it is disputed it cannot be approved.
C30_InProgress(i, op) == \E k \in DOMAIN stack : stack[k].id = i /\ stack[k].op = op
C30_Serializable ==
  /\ [](\A i \in IdRange :
          /\ C30_InProgress(i, "makePayment") => ~ENABLED cancelInvoice(i, invoices[i].provider)
          /\ C30_InProgress(i, "approveInvoice")
             => \A sender \in {invoices[i].provider, invoices[i].client} :
                   ~ENABLED raiseDispute(i, sender, "late")
          /\ invoices[i].status = "Cancelled"
             => /\ paidIn[i] = 0
                /\ \A value \in ValueInputs : ~ENABLED makePayment(i, invoices[i].client, value)
          /\ paidIn[i] > 0 => ~ENABLED cancelInvoice(i, invoices[i].provider)
          /\ invoices[i].status = "Completed"
             => \A sender \in {invoices[i].provider, invoices[i].client} :
                   ~ENABLED raiseDispute(i, sender, "late")
          /\ invoices[i].status = "Disputed" => ~ENABLED approveInvoice(i, invoices[i].client))
  /\ [][(~TransferFail) =>
          \A i \in IdRange :
            invoices[i].status = "Cancelled"
            => invoices'[i].status = "Cancelled" /\ paidIn'[i] = 0]_vars

\* C31: every status transition of an invoice is logged, in the same call, with the event
\* named for it and the invoice's id: InvoiceCreated on creation, PaymentMade on payment,
\* InvoiceApproved whenever the status becomes Approved, FundsReleased whenever it becomes
\* Completed, DisputeRaised on raiseDispute, DisputeResolved on resolveDispute,
\* InvoiceCancelled on cancelInvoice; a call that reverts logs nothing.
\* _releaseFunds requires Approved, so an invoice Completed without ever having been
\* disputed has been Approved in the call that completed it.
C31_WasApproved(i) == invoices[i].status = "Completed" /\ disputeReasons[i] = ""
C31_Resolved(i) ==
  \/ invoices[i].status = "Refunded"
  \/ invoices[i].status = "Completed" /\ disputeReasons[i] # ""
\* what the latest call for invoice i has logged, once it has returned
C31_Logged(i) ==
  /\ "InvoiceCreated" \in events[i] <=> invoices[i].status = "Created"
  /\ invoices[i].status = "Paid" => "PaymentMade" \in events[i]
  /\ invoices[i].status = "Disputed" => "DisputeRaised" \in events[i]
  /\ invoices[i].status = "Cancelled" => "InvoiceCancelled" \in events[i]
  /\ invoices[i].status = "Completed" => "FundsReleased" \in events[i]
  /\ C31_Resolved(i) => "DisputeResolved" \in events[i]
\* the log changes only in a call for the invoice that goes through
C31_FailedLogsNothing ==
  /\ TransferFail => events' = Top.snap.events
  /\ \A i \in IdRange :
       (events'[i] # events[i] /\ ~TransferFail) =>
          \/ invoices'[i].status # invoices[i].status
          \/ ~Exists(i)
          \/ ~NoFrame(i)
          \/ ~NoFrame(i)'
C31_EveryTransitionNotified ==
  /\ [](\A i \in IdRange :
          (Exists(i) /\ NoFrame(i)) =>
             /\ C31_Logged(i)
             /\ C31_WasApproved(i) => "InvoiceApproved" \in events[i])
  /\ [][C31_FailedLogsNothing]_vars

\* What holds: all of the above, with InvoiceApproved logged by approveInvoice only,
\* and not by the makePayment that releases the funds of an invoice needing no approval.
C31_NotifiedButForAutoRelease ==
  /\ [](\A i \in IdRange :
          (Exists(i) /\ NoFrame(i)) =>
             /\ C31_Logged(i)
             /\ (C31_WasApproved(i) /\ invoices[i].terms.requiresApproval)
                   => "InvoiceApproved" \in events[i]
             /\ (C31_WasApproved(i) /\ ~invoices[i].terms.requiresApproval)
                   => events[i] \subseteq {"InvoiceCancelled", "PaymentMade", "FundsReleased"})
  /\ [][C31_FailedLogsNothing]_vars

\* C32: on an invoice with requiresApproval = true the escrowed funds are never released
\* to the provider by the provider's own actions alone: no call of the provider's makes
\* such an invoice Completed (approveInvoice and resolveDispute(true) are refused to it),
\* and every step that makes it Completed is an approveInvoice by the client or a
\* resolveDispute(true).
C32_Released(i) ==
  /\ Exists(i)
  /\ invoices[i].terms.requiresApproval
  /\ invoices[i].status # "Completed"
  /\ invoices'[i].status = "Completed"
C32_ReleaseStep ==
  \A i \in IdRange :
     C32_Released(i) =>
        \/ approveInvoice(i, invoices[i].client)
        \/ \E sender \in Callers : resolveDispute(i, sender, TRUE)
C32_NotByProviderAlone ==
  /\ [](\A i \in IdRange :
          (Exists(i) /\ invoices[i].terms.requiresApproval) =>
             /\ ~ENABLED approveInvoice(i, invoices[i].provider)
             /\ ~ENABLED resolveDispute(i, invoices[i].provider, TRUE))
  /\ [][C32_ReleaseStep]_vars

\* What holds: the same for every invoice whose provider did not name itself arbitrator.
C32_UnlessOwnArbitrator ==
  /\ [](\A i \in IdRange :
          (/\ Exists(i)
           /\ invoices[i].terms.requiresApproval
           /\ invoices[i].terms.arbitrator # invoices[i].provider) =>
             /\ ~ENABLED approveInvoice(i, invoices[i].provider)
             /\ ~ENABLED resolveDispute(i, invoices[i].provider, TRUE))
  /\ [][C32_ReleaseStep]_vars

\* C33: funds are never stranded by the lifecycle itself: in every reachable unpaused
\* state every invoice that is not in a terminal status has a lifecycle call whose status,
\* role and timing preconditions hold - Created: cancelInvoice by the provider; Paid:
\* approveInvoice by the client and raiseDispute by either party; Disputed: resolveDispute
\* by the arbitrator and by the owner, the escrow balance being positive - and such a call,
\* once it has changed the status, has made it terminal with escrow balance 0. Whenever
\* a call can be made, cancelInvoice and raiseDispute go through.
C33_Preconditions(i) ==
  LET invoice == invoices[i] IN
  CASE invoice.status = "Created" -> cancelInvoiceOk(i, invoice.provider)
    [] invoice.status = "Paid" ->
         /\ approveInvoiceOk(i, invoice.client)
         /\ raiseDisputeOk(i, invoice.provider, "late")
         /\ raiseDisputeOk(i, invoice.client, "late")
    [] invoice.status = "Disputed" ->
         /\ resolveDisputeOk(i, invoice.terms.arbitrator)
         /\ resolveDisputeOk(i, OWNER)
         /\ escrowBalances[i] > 0
    [] OTHER -> invoice.status \in Terminal
C33_Ends(i, s) == invoices'[i].status = s /\ escrowBalances'[i] = 0
C33_CanEnd(i) ==
  LET invoice == invoices[i] IN
  CASE invoice.status = "Created" ->
         ENABLED (cancelInvoice(i, invoice.provider) /\ C33_Ends(i, "Cancelled"))
    [] invoice.status = "Paid" ->
         /\ ENABLED raiseDispute(i, invoice.provider, "late")
         /\ ENABLED raiseDispute(i, invoice.client, "late")
    [] OTHER -> TRUE
C33_EndsTerminal(i) ==
  LET invoice == invoices[i] IN
  invoices'[i].status # invoice.status =>
    /\ cancelInvoice(i, invoice.provider) => C33_Ends(i, "Cancelled")
    /\ approveInvoice(i, invoice.client) => C33_Ends(i, "Completed")
    /\ \A sender \in {invoice.terms.arbitrator, OWNER} :
         /\ resolveDispute(i, sender, TRUE) => C33_Ends(i, "Completed")
         /\ resolveDispute(i, sender, FALSE) => C33_Ends(i, "Refunded")
C33_NeverStranded ==
  /\ [](\A i \in IdRange :
          (Exists(i) /\ ~paused) =>
             /\ C33_Preconditions(i)
             /\ CanCall => C33_CanEnd(i))
  /\ [][\A i \in IdRange : Exists(i) => C33_EndsTerminal(i)]_vars
\* witness: unpaused, one invoice Disputed and another still Created after its due date
C33_Witness ==
  /\ ~paused /\ stack = <<>>
  /\ \E i, j \in IdRange :
       /\ invoices[i].status = "Disputed"
       /\ balances[invoices[i].token][LEDGER] >= escrowBalances[i]
       /\ Exists(j) /\ invoices[j].status = "Created" /\ now > invoices[j].dueDate

\* C34: exact conservation under the lifecycle calls alone (createInvoice, makePayment,
\* approveInvoice, raiseDispute, resolveDispute, cancelInvoice): of each asset the ledger
\* holds exactly the sum of the escrow balances of the invoices in that asset, plus what a
\* settlement in progress has still to send; and the total paid out for an invoice
\* (provider + fee collector + client) is what was deposited for it once it is Completed
\* or Refunded and its transfers are done, and 0 before.
RECURSIVE C34_ToSend(_, _)
C34_ToSend(stk, t) ==
  IF stk = <<>> THEN 0
  ELSE LET f == stk[Len(stk)]
           rest == C34_ToSend(SubSeq(stk, 1, Len(stk) - 1), t)
       IN IF invoices[f.id].token # t \/ f.pc = "transferFrom" THEN rest
          ELSE f.amt + f.fee + rest
C34_ExactConservation ==
  /\ \A t \in Tokens : balances[t][LEDGER] = SumEscrow(IdRange, t) + C34_ToSend(stack, t)
  /\ \A i \in IdRange :
       Exists(i) =>
          IF invoices[i].status \in {"Completed", "Refunded"}
          THEN NoFrame(i) => (PaidOutTotal(i) = paidIn[i] /\ paidIn[i] > 0)
          ELSE PaidOutTotal(i) = 0
\* witness: between calls, one invoice refunded in full and another holding its payment
C34_Witness ==
  /\ stack = <<>>
  /\ \E i, j \in IdRange :
       /\ invoices[i].status = "Refunded" /\ paidOut[i].client = paidIn[i] /\ paidIn[i] > 0
       /\ invoices[j].status = "Paid"
       /\ balances[invoices[j].token][LEDGER] = escrowBalances[j]
       /\ escrowBalances[j] > 0

\* C35: every invoice observed Paid or Disputed has an escrow balance strictly greater
\* than 0, at least amount - floor(amount * 1000 / 10000) and at most amount, so 'No funds
\* in escrow' is never the reason an otherwise valid approveInvoice or resolveDispute
\* fails: in such a step the escrow balance is the amount sent out.
C35_Floor(amount) == amount - ((amount * 1000) \div 10000)
C35_Funded(i) ==
  /\ escrowBalances[i] > 0
  /\ escrowBalances[i] >= C35_Floor(invoices[i].amount)
  /\ escrowBalances[i] <= invoices[i].amount
C35_EscrowPositive ==
  /\ [](\A i \in IdRange : invoices[i].status \in {"Paid", "Disputed"} => C35_Funded(i))
  /\ [][\A i \in IdRange :
          (/\ invoices[i].status \in {"Paid", "Disputed"}
           /\ invoices'[i].status \in {"Completed", "Refunded"})
             => /\ escrowBalances[i] > 0
                /\ escrowBalances'[i] = 0]_vars
\* witness: a Disputed invoice paid with the discount, and one Paid in full
C35_Witness ==
  \E i, j \in IdRange :
     /\ invoices[i].status = "Disputed" /\ escrowBalances[i] = 950
     /\ invoices[j].status = "Paid" /\ escrowBalances[j] = invoices[j].amount

\* C36: with a clock that never goes back, every invoice has paidAt = 0 while it is
\* Created or Cancelled and createdAt <= paidAt <= dueDate in every other status, and
\* earlyPaymentDeadline <= dueDate; paidAt is written exactly once, by the makePayment
\* that goes through: it changes only from 0 to the time of that call, and never again.
C36_Timestamps(inv) ==
  /\ inv.status \in {"Created", "Cancelled"} => inv.paidAt = 0
  /\ inv.status \notin {"Created", "Cancelled"}
       => (inv.createdAt <= inv.paidAt /\ inv.paidAt <= inv.dueDate /\ inv.paidAt > 0)
  /\ inv.terms.earlyPaymentDeadline <= inv.dueDate
C36_PaidAtWrite(i) ==
  invoices'[i].paidAt # invoices[i].paidAt =>
     /\ invoices[i].paidAt = 0
     /\ invoices'[i].paidAt = now
     /\ invoices'[i].status # invoices[i].status
     /\ \/ makePayment(i, invoices[i].client, escrowBalances'[i] + paidOut'[i].provider + paidOut'[i].fee)
        \/ stack # <<>> /\ Top.op = "makePayment" /\ Top.id = i /\ TransferReturn
C36_PaidAtOrdered ==
  /\ [](\A i \in IdRange : Exists(i) => C36_Timestamps(invoices[i]))
  /\ [][now' >= now]_vars
  /\ [][(~TransferFail) => \A i \in IdRange : Exists(i) => C36_PaidAtWrite(i)]_vars
\* witness: an invoice with an early-payment deadline paid after the day it was created,
\* and another one cancelled
C36_Witness ==
  \E i, j \in IdRange :
     /\ invoices[i].status \in {"Paid", "Disputed", "Completed", "Refunded"}
     /\ invoices[i].terms.earlyPaymentDeadline > 0
     /\ invoices[i].createdAt < invoices[i].paidAt
     /\ invoices[j].status = "Cancelled" /\ invoices[j].paidAt = 0

\* C37: the platform fee of a settlement goes to the fee collector configured at the
\* moment of the settlement: whenever a fee is paid out for an invoice, whenever created
\* or paid, the current feeCollector's holding grows by it and no other collector's
\* changes; and setFeeCollector(new) makes new the collector, moves no funds and changes
\* no invoice.
C37_FeePaid(i) == paidOut'[i].fee - paidOut[i].fee
C37_FeeToCurrent(i) ==
  LET t == invoices[i].token IN
  C37_FeePaid(i) > 0 =>
     /\ feeCollector' = feeCollector
     /\ balances'[t][feeCollector] = balances[t][feeCollector] + C37_FeePaid(i)
     /\ \A c \in Collectors \ {feeCollector} : balances'[t][c] = balances[t][c]
C37_SetOnly ==
  \A new \in CollectorInputs :
     setFeeCollector(OWNER, new) =>
        /\ feeCollector' = new
        /\ UNCHANGED <<balances, invoices, escrowBalances, disputeReasons, paidIn, paidOut>>
C37_FeeToCurrentCollector ==
  /\ [][(~TransferFail) => \A i \in IdRange : C37_FeeToCurrent(i)]_vars
  /\ [][C37_SetOnly]_vars
  /\ [][feeCollector' # feeCollector =>
          UNCHANGED <<balances, invoices, escrowBalances, paidIn, paidOut>>]_vars
\* witness: two invoices created at the same time, one settled with its fee to fc2 (the
\* current collector), the other with its fee to fc
C37_Witness ==
  /\ feeCollector = "fc2"
  /\ \E i, j \in IdRange :
       /\ invoices[i].createdAt = invoices[j].createdAt
       /\ invoices[i].status = "Completed" /\ invoices[j].status = "Completed"
       /\ NoFrame(i) /\ NoFrame(j)
       /\ balances[invoices[i].token]["fc"] = paidOut[i].fee /\ paidOut[i].fee > 0
       /\ balances[invoices[j].token]["fc2"] = paidOut[j].fee /\ paidOut[j].fee > 0

\* C38: a lifecycle call for invoice i changes nothing that belongs to another invoice j:
\* the record, the escrow balance and the dispute reason of j are unchanged by every step
\* of a call for i, the return of its token calls included; createInvoice changes no
\* existing invoice; and a call that fails leaves every invoice as it was when the call
\* was entered.
C38_Changed(j) ==
  \/ invoices'[j] # invoices[j]
  \/ escrowBalances'[j] # escrowBalances[j]
  \/ disputeReasons'[j] # disputeReasons[j]
C38_Others(i) == \A j \in IdRange \ {i} : ~C38_Changed(j)
C38_CallFor(i) ==
  \/ \E value \in ValueInputs : makePayment(i, invoices[i].client, value)
  \/ approveInvoice(i, invoices[i].client)
  \/ \E sender \in {invoices[i].provider, invoices[i].client}, _reason \in ReasonInputs :
       raiseDispute(i, sender, _reason)
  \/ \E sender \in {invoices[i].terms.arbitrator, OWNER}, _favorProvider \in BOOLEAN :
       resolveDispute(i, sender, _favorProvider)
  \/ cancelInvoice(i, invoices[i].provider)
  \/ stack # <<>> /\ Top.id = i /\ TransferReturn
C38_Frame ==
  /\ (~TransferFail) =>
        /\ \A i \in IdRange : (Exists(i) /\ C38_CallFor(i)) => C38_Others(i)
        /\ \A i, j \in IdRange : (C38_Changed(i) /\ C38_Changed(j)) => i = j
        /\ nextInvoiceId' # nextInvoiceId
             => \A j \in IdRange : Exists(j) => ~C38_Changed(j)
  /\ TransferFail =>
        /\ invoices' = Top.snap.invoices
        /\ escrowBalances' = Top.snap.escrowBalances
        /\ disputeReasons' = Top.snap.disputeReasons
C38_OtherInvoicesUntouched == [][C38_Frame]_vars
\* witness: one invoice disputed and then refunded, the other still as it was created
C38_Witness ==
  \E i, j \in IdRange :
     /\ invoices[i].status = "Refunded" /\ disputeReasons[i] = "late"
     /\ Exists(j) /\ invoices[j].status = "Created"
     /\ invoices[j].createdAt < invoices[i].createdAt
     /\ disputeReasons[j] = "" /\ escrowBalances[j] = 0 /\ invoices[j].paidAt = 0

\* C39: for every invoice created through InvoiceFactory.createInvoice, the provider
\* recorded in the ledger for the returned id is the account that called the factory: the
\* account under which the factory indexes the id in userInvoices and which it reports as
\* provider in InvoiceCreatedViaFactory; so that account can cancel the invoice while it
\* is Created, and it is the one paid when the invoice is settled.
C39_ViaFactory(id) == createdViaFactory[id].provider # ZERO
C39_Indexed(user, id) == \E k \in DOMAIN userInvoices[user] : userInvoices[user][k] = id
C39_ProviderIsCaller ==
  \A id \in IdRange :
     C39_ViaFactory(id) =>
        LET user == createdViaFactory[id].provider IN
        /\ C39_Indexed(user, id)
        /\ Exists(id)
        /\ invoices[id].provider = user
        /\ (invoices[id].status = "Created" /\ CanCall) => ENABLED cancelInvoice(id, user)
        /\ (invoices[id].status = "Completed" /\ NoFrame(id))
              => balances[invoices[id].token][user] >= paidOut[id].provider

\* What holds: the ledger records the factory itself as provider and indexes the id under
\* the factory; the account that called the factory can neither cancel the invoice nor
\* raise a dispute as provider; a settlement in tokens is paid to the factory, and one in
\* the native asset never goes through, the factory being unable to receive it.
C39_ProviderIsFactory ==
  \A id \in IdRange :
     C39_ViaFactory(id) =>
        LET user == createdViaFactory[id].provider IN
        /\ C39_Indexed(user, id)
        /\ invoiceToContract[id] = LEDGER
        /\ Exists(id)
        /\ invoices[id].provider = FACTORY
        /\ invoices[id].client = createdViaFactory[id].client
        /\ \E k \in DOMAIN providerInvoices[FACTORY] : providerInvoices[FACTORY][k] = id
        /\ user # invoices[id].client => ~ENABLED cancelInvoice(id, user)
        /\ user # invoices[id].client => ~ENABLED raiseDispute(id, user, "late")
        /\ (invoices[id].status = "Completed" /\ NoFrame(id))
              => /\ invoices[id].token # ZERO
                 /\ paidOut[id].provider > 0
                 /\ balances[invoices[id].token][FACTORY] >= paidOut[id].provider
                 /\ balances[invoices[id].token][user] = 0

====
